---- MODULE Spec2Model ----
(***************************************************************************)
(* GSC Coin chain engine (blockchain.py): transactions, blocks, proof of   *)
(* work, the balance ledger, the mempool, mining, chain replacement,       *)
(* validation and persistence, as a state machine over one GSCBlockchain;  *)
(* the messages a connected peer sends it (network.py), the threads that   *)
(* call into it concurrently, the mining button of the wallet window       *)
(* (gsc_wallet_gui.py), the wallet manager (wallet_manager.py), and the    *)
(* node's peer set, broadcasts and headers-first sync (network.py).        *)
(*                                                                         *)
(* Amounts and timestamps are Python floats in the source; the model uses  *)
(* integers.  SHA-256 is modelled as a collision-free function: a digest   *)
(* is the tuple of the fields that were hashed, and the number of leading  *)
(* hex zeroes of a digest is a fixed arithmetic function of that tuple.    *)
(***************************************************************************)
EXTENDS Integers, Sequences, FiniteSets, TLC

VARIABLES chain, mempool, balances, difficulty, block_height, is_mining,
          file, last, threads, net, gui, wallet, node

vars == <<chain, mempool, balances, difficulty, block_height, is_mining,
          file, last, threads, net, gui, wallet, node>>

----------------------------------------------------------------------------
(* Bounds of the model *)

\* longest chain (number of blocks, genesis included) the model builds
MaxChain == 2
\* most pending transactions the model admits
MaxMempool == 2

----------------------------------------------------------------------------
(* Program constants *)

\* GSCBlockchain.__init__: 21.75 trillion in the source; scaled down here
\* because TLC's integers are 32-bit.  It only has to exceed every other
\* amount of the model.
max_supply == 21750
initial_reward == 50
halving_interval == 210000
\* GSCBlockchain.__init__: self.difficulty = 4
initial_difficulty == 4
\* create_new_block passes difficulty=4 to the Block constructor
new_block_difficulty == 4
\* Block.difficulty default, used by the genesis block's constructor
default_difficulty == 4
\* Block.reward default, the reward of the genesis block's coinbase
default_reward == 50
genesis_timestamp == 1704067200
genesis_difficulty == 1
\* create_new_block selects mempool[:10]
block_tx_limit == 10
\* GSCBlockchain.__init__: self.mining_reward = 50.0, assigned nowhere else
\* but in load_blockchain
mining_reward == 50

COINBASE == "COINBASE"
Genesis == "Genesis"
FOUNDATION_RESERVE == "GSC_FOUNDATION_RESERVE"
FOUNDATION == "GSC_FOUNDATION"

\* "0" * 64
ZeroHash == <<"0">>
\* hashlib.sha256(b"").hexdigest()
EmptyHash == <<"e3b0">>

----------------------------------------------------------------------------
(* Inputs *)

Users == {"M", "R"}
Amounts == {25, 30}
Fees == {1}
\* values of time.time(): a clock set before the genesis timestamp, and one
\* after it
Times == {genesis_timestamp - 1, genesis_timestamp + 1}
\* timestamps of offered transactions
TxTimes == {genesis_timestamp + 1}
\* the difficulty spinbox of the options dialog offers 1..8
Difficulties == {1, 2}

----------------------------------------------------------------------------
(* Transaction *)

Transaction_calculate_hash(tx) ==
    <<tx.sender, tx.receiver, tx.amount, tx.fee, tx.timestamp>>

\* Transaction(...) with no tx_id given: __post_init__ computes it
Transaction(sender, receiver, amount, fee, timestamp) ==
    LET t == [sender |-> sender, receiver |-> receiver, amount |-> amount,
              fee |-> fee, timestamp |-> timestamp, signature |-> "",
              tx_id |-> <<>>]
    IN  [t EXCEPT !.tx_id = Transaction_calculate_hash(t)]

Transaction_is_valid(tx) ==
    IF tx.amount <= 0 THEN FALSE
    ELSE IF tx.fee < 0 THEN FALSE
    ELSE IF tx.sender = tx.receiver THEN FALSE
    ELSE TRUE

----------------------------------------------------------------------------
(* Block *)

\* sha256(a + b) of two digests
HashPair(a, b) == <<"h", a, b>>

RECURSIVE MerklePairs(_)
MerklePairs(hs) ==
    IF Len(hs) = 0 THEN <<>>
    ELSE <<HashPair(hs[1], hs[2])>> \o MerklePairs(SubSeq(hs, 3, Len(hs)))

RECURSIVE MerkleReduce(_)
MerkleReduce(hs) ==
    IF Len(hs) <= 1 THEN hs[1]
    ELSE LET padded == IF Len(hs) % 2 # 0 THEN Append(hs, hs[Len(hs)]) ELSE hs
         IN  MerkleReduce(MerklePairs(padded))

calculate_merkle_root(transactions) ==
    IF Len(transactions) = 0 THEN EmptyHash
    ELSE MerkleReduce([i \in 1..Len(transactions) |-> transactions[i].tx_id])

Block_calculate_hash(b) ==
    <<b.index, b.timestamp, b.previous_hash, b.merkle_root, b.nonce,
      b.difficulty>>

\* The leading hex zeroes of a digest: a block digest h starts with d
\* zeroes iff Mix(h) is a multiple of 2^d; "0" * 64 starts with any number.
Mix(h) ==
    IF Len(h) = 6
    THEN 7 * h[1] + h[2] + 2 * Len(h[3]) + 3 * Len(h[4]) + h[5] + h[6]
    ELSE IF h = ZeroHash THEN 0 ELSE 1

StartsWithZeros(h, d) == Mix(h) % (2 ^ d) = 0

\* Block(...) with no hash or merkle_root given: __post_init__ computes them
Block(index, timestamp, transactions, previous_hash, diff, reward) ==
    LET b0 == [index |-> index, timestamp |-> timestamp,
               transactions |-> transactions,
               previous_hash |-> previous_hash, nonce |-> 0, hash |-> <<>>,
               merkle_root |-> calculate_merkle_root(transactions),
               difficulty |-> diff, miner |-> "", reward |-> reward]
    IN  [b0 EXCEPT !.hash = Block_calculate_hash(b0)]

\* the while loop of mine_block: the hash the block already carries is
\* tested first, and recomputed only when the nonce is advanced
RECURSIVE MineLoop(_, _)
MineLoop(b, d) ==
    IF StartsWithZeros(b.hash, d) THEN b
    ELSE LET b1 == [b EXCEPT !.nonce = @ + 1]
         IN  MineLoop([b1 EXCEPT !.hash = Block_calculate_hash(b1)], d)

mine_block(b, d, miner_address, now) ==
    LET coinbase_tx == Transaction(COINBASE, miner_address, b.reward, 0, now)
        txs == <<coinbase_tx>> \o b.transactions
        b1 == [b EXCEPT !.difficulty = d, !.miner = miner_address,
                        !.transactions = txs,
                        !.merkle_root = calculate_merkle_root(txs)]
    IN  MineLoop(b1, d)

Block_is_valid(b, previous_block) ==
    IF b.hash # Block_calculate_hash(b) THEN FALSE
    ELSE IF b.previous_hash # previous_block.hash THEN FALSE
    ELSE IF b.merkle_root # calculate_merkle_root(b.transactions) THEN FALSE
    ELSE IF ~StartsWithZeros(b.hash, b.difficulty) THEN FALSE
    ELSE \A i \in 1..Len(b.transactions) :
            Transaction_is_valid(b.transactions[i])

----------------------------------------------------------------------------
(* Balance ledger: a dict, read with a default of 0 *)

EmptyBalances == [a \in {} |-> 0]

BalanceOf(bal, address) == IF address \in DOMAIN bal THEN bal[address] ELSE 0

\* balances[a] += x, inserting the key at 0 first
Credit(bal, address, x) ==
    IF address \in DOMAIN bal THEN [bal EXCEPT ![address] = @ + x]
    ELSE bal @@ (address :> x)

\* the body of update_balances' loop for one transaction
UpdateTx(bal, tx, miner) ==
    LET b1 == IF tx.sender \notin {"COINBASE", "GENESIS"}
              THEN Credit(bal, tx.sender, 0 - (tx.amount + tx.fee))
              ELSE bal
        b2 == Credit(b1, tx.receiver, tx.amount)
    IN  IF tx.sender # "COINBASE" /\ miner # ""
        THEN Credit(b2, miner, tx.fee)
        ELSE b2

RECURSIVE UpdateTxs(_, _, _)
UpdateTxs(bal, txs, miner) ==
    IF Len(txs) = 0 THEN bal
    ELSE UpdateTxs(UpdateTx(bal, Head(txs), miner), Tail(txs), miner)

RECURSIVE UpdateBlocks(_, _)
UpdateBlocks(bal, blocks) ==
    IF Len(blocks) = 0 THEN bal
    ELSE UpdateBlocks(UpdateTxs(bal, Head(blocks).transactions,
                                Head(blocks).miner), Tail(blocks))

update_balances(c) == UpdateBlocks(EmptyBalances, c)

get_balance(address) == BalanceOf(balances, address)

----------------------------------------------------------------------------
(* GSCBlockchain: pure parts *)

LatestBlock(c) == c[Len(c)]

\* len(self.chain): the blocks the model holds and, where it holds only the
\* last blocks of a long chain, the c[1].index blocks below them
ChainLen(c) == c[1].index + Len(c)

\* get_current_reward, as a function of the value of self.block_height
RewardOfBlockHeight(height) ==
    LET halvings == height \div halving_interval
    IN  IF halvings >= 64 THEN 0 ELSE initial_reward \div (2 ^ halvings)

get_current_reward == RewardOfBlockHeight(block_height)

\* the block create_genesis_block builds, mines and appends; the coinbase
\* that mine_block inserts is stamped with the wall clock
GenesisBlock(now) ==
    LET genesis_transactions ==
            <<Transaction(Genesis, FOUNDATION_RESERVE, max_supply, 0,
                          genesis_timestamp)>>
        b == Block(0, genesis_timestamp, genesis_transactions, ZeroHash,
                   default_difficulty, default_reward)
    IN  mine_block(b, genesis_difficulty, FOUNDATION, now)

\* create_genesis_block appends to whatever self.chain holds
create_genesis_block(c, now) == Append(c, GenesisBlock(now))

\* sum of amount + fee over the pending transactions of one sender
RECURSIVE PendingSpending(_, _)
PendingSpending(pool, sender) ==
    IF Len(pool) = 0 THEN 0
    ELSE (IF Head(pool).sender = sender
          THEN Head(pool).amount + Head(pool).fee ELSE 0)
         + PendingSpending(Tail(pool), sender)

\* is_transaction_valid without its check of the sender's pending spending
is_transaction_valid_basic_only(transaction) ==
    Transaction_is_valid(transaction)

is_transaction_valid(transaction) ==
    IF ~Transaction_is_valid(transaction) THEN FALSE
    ELSE ~ \E i \in 1..Len(mempool) :
            /\ mempool[i].sender = transaction.sender
            /\ mempool[i].tx_id # transaction.tx_id
            /\ PendingSpending(mempool, transaction.sender)
                 + transaction.amount + transaction.fee
               > get_balance(transaction.sender)

\* an admission that does not look for the id among the pending ones
MempoolAdmits_any_id(transaction) ==
    IF ~is_transaction_valid(transaction) THEN FALSE
    ELSE get_balance(transaction.sender)
            >= transaction.amount + transaction.fee

\* the value add_transaction_to_mempool returns
MempoolAdmits(transaction) ==
    IF ~is_transaction_valid(transaction) THEN FALSE
    ELSE IF get_balance(transaction.sender)
              >= transaction.amount + transaction.fee
         THEN ~ \E i \in 1..Len(mempool) :
                    mempool[i].tx_id = transaction.tx_id
         ELSE FALSE

create_new_block(now) ==
    LET latest_block == LatestBlock(chain)
        selected_transactions ==
            SubSeq(mempool, 1,
                   IF Len(mempool) < block_tx_limit THEN Len(mempool)
                   ELSE block_tx_limit)
    IN  Block(latest_block.index + 1, now, selected_transactions,
              latest_block.hash, new_block_difficulty, get_current_reward)

\* mempool.remove(tx): drops the first element equal to tx
RECURSIVE RemoveFirst(_, _)
RemoveFirst(pool, tx) ==
    IF Len(pool) = 0 THEN pool
    ELSE IF Head(pool) = tx THEN Tail(pool)
    ELSE <<Head(pool)>> \o RemoveFirst(Tail(pool), tx)

RECURSIVE RemoveAll(_, _)
RemoveAll(pool, txs) ==
    IF Len(txs) = 0 THEN pool
    ELSE RemoveAll(RemoveFirst(pool, Head(txs)), Tail(txs))

\* the value add_block returns
AddBlockAccepts(block) == Block_is_valid(block, LatestBlock(chain))

get_balance_at_block(address, block_index) ==
    LET n == IF block_index + 1 < Len(chain) THEN block_index + 1
             ELSE Len(chain)
        TxDelta(tx, miner) ==
            (IF tx.sender = address /\ tx.sender \notin {"COINBASE", "Genesis"}
             THEN 0 - (tx.amount + tx.fee) ELSE 0)
            + (IF tx.receiver = address THEN tx.amount ELSE 0)
            + (IF miner = address /\ tx.sender \notin {"COINBASE", "Genesis"}
               THEN tx.fee ELSE 0)
        RECURSIVE TxsDelta(_, _)
        TxsDelta(txs, miner) ==
            IF Len(txs) = 0 THEN 0
            ELSE TxDelta(Head(txs), miner) + TxsDelta(Tail(txs), miner)
        RECURSIVE Upto(_)
        Upto(i) ==
            IF i = 0 THEN 0
            ELSE Upto(i - 1) + TxsDelta(chain[i].transactions, chain[i].miner)
    IN  Upto(IF n < 0 THEN 0 ELSE n)

check_double_spending(transaction, current_block_index) ==
    \E i \in 0..(current_block_index - 1) :
        /\ i < Len(chain)
        /\ \E j \in 1..Len(chain[i + 1].transactions) :
              LET tx == chain[i + 1].transactions[j]
              IN  /\ tx.sender = transaction.sender
                  /\ tx.receiver = transaction.receiver
                  /\ tx.amount = transaction.amount
                  /\ tx.timestamp = transaction.timestamp

validate_transaction_bitcoin_style(tx, block) ==
    IF tx.sender = "COINBASE" THEN TRUE
    ELSE IF tx.tx_id # Transaction_calculate_hash(tx) THEN FALSE
    ELSE IF ~Transaction_is_valid(tx) THEN FALSE
    ELSE IF get_balance_at_block(tx.sender, block.index - 1)
              < tx.amount + tx.fee THEN FALSE
    ELSE IF check_double_spending(tx, block.index) THEN FALSE
    ELSE TRUE

validate_block_bitcoin_style(block, previous_block) ==
    IF block.index # previous_block.index + 1 THEN FALSE
    ELSE IF block.previous_hash # previous_block.hash THEN FALSE
    ELSE IF block.hash # Block_calculate_hash(block) THEN FALSE
    ELSE IF ~StartsWithZeros(block.hash, difficulty) THEN FALSE
    ELSE IF block.merkle_root # calculate_merkle_root(block.transactions)
         THEN FALSE
    ELSE IF \E i \in 1..Len(block.transactions) :
              ~validate_transaction_bitcoin_style(block.transactions[i], block)
         THEN FALSE
    ELSE IF /\ Len(block.transactions) > 0
            /\ \/ block.transactions[1].sender # "COINBASE"
               \/ block.transactions[1].amount # get_current_reward
         THEN FALSE
    ELSE IF block.timestamp <= previous_block.timestamp THEN FALSE
    ELSE TRUE

\* the ledger validate_balances recomputes and stores
ValidateTx(bal, tx, miner) ==
    IF tx.sender = "COINBASE" THEN Credit(bal, tx.receiver, tx.amount)
    ELSE IF tx.sender = "Genesis" THEN Credit(bal, tx.receiver, tx.amount)
    ELSE LET b1 == Credit(bal, tx.sender, 0 - (tx.amount + tx.fee))
             b2 == Credit(b1, tx.receiver, tx.amount)
         IN  IF miner # "" THEN Credit(b2, miner, tx.fee) ELSE b2

RECURSIVE ValidateTxs(_, _, _)
ValidateTxs(bal, txs, miner) ==
    IF Len(txs) = 0 THEN bal
    ELSE ValidateTxs(ValidateTx(bal, Head(txs), miner), Tail(txs), miner)

RECURSIVE ValidateBlocks(_, _)
ValidateBlocks(bal, blocks) ==
    IF Len(blocks) = 0 THEN bal
    ELSE ValidateBlocks(ValidateTxs(bal, Head(blocks).transactions,
                                    Head(blocks).miner), Tail(blocks))

validate_balances(c) == ValidateBlocks(EmptyBalances, c)

\* the value is_chain_valid returns, up to the call of validate_balances,
\* which always returns True
is_chain_valid ==
    IF Len(chain) = 0 THEN FALSE
    ELSE IF chain[1].index # 0 \/ chain[1].previous_hash # ZeroHash THEN FALSE
    ELSE \A i \in 2..Len(chain) :
            validate_block_bitcoin_style(chain[i], chain[i - 1])

is_chain_valid_network(c) ==
    IF Len(c) = 0 THEN FALSE
    ELSE IF c[1].index # 0 \/ c[1].previous_hash # ZeroHash THEN FALSE
    ELSE \A i \in 2..Len(c) : Block_is_valid(c[i], c[i - 1])

\* replace_chain_if_longer with any valid chain, longer or not
ReplaceAccepts_any_valid(new_chain) == is_chain_valid_network(new_chain)

\* the condition under which replace_chain_if_longer replaces the chain
ReplaceAccepts(new_chain) ==
    Len(new_chain) > Len(chain) /\ is_chain_valid_network(new_chain)

----------------------------------------------------------------------------
(* Inputs of the public operations *)

\* transactions offered to add_transaction_to_mempool: a payout of the
\* foundation reserve, which the genesis block funds, and payments of the
\* user who mines, to the other user and to itself
TxInputs ==
    {Transaction(FOUNDATION_RESERVE, "M", a, f, t) :
        a \in {30}, f \in Fees, t \in TxTimes}
    \cup {Transaction("M", r, a, f, t) :
            r \in Users, a \in Amounts, f \in Fees, t \in TxTimes}

\* Transaction.to_dict: the fields of a transaction as a message carries them
to_dict(tx) ==
    [sender |-> tx.sender, receiver |-> tx.receiver, amount |-> tx.amount,
     fee |-> tx.fee, timestamp |-> tx.timestamp, signature |-> tx.signature,
     tx_id |-> tx.tx_id]

\* process_message, new_transaction: the transaction is rebuilt from the
\* message's fields and its tx_id is then overwritten with the carried one
TransactionFromData(tx_data) ==
    LET tx == Transaction(tx_data.sender, tx_data.receiver, tx_data.amount,
                          tx_data.fee, tx_data.timestamp)
    IN  [tx EXCEPT !.signature = tx_data.signature, !.tx_id = tx_data.tx_id]

\* a digest that is the hash of no transaction
ForgedId == <<"f0f0">>

\* the transaction data of the new_transaction messages peers send: a payout
\* of the foundation reserve as its sender's node serialised it, and the same
\* fields under another id
TxMessages ==
    LET tx == Transaction(FOUNDATION_RESERVE, "M", 30, 1, genesis_timestamp + 1)
    IN  {to_dict(tx), [to_dict(tx) EXCEPT !.tx_id = ForgedId]}

\* every non-coinbase transaction of a chain, in order
RECURSIVE ChainTxs(_)
ChainTxs(c) ==
    IF Len(c) = 0 THEN <<>>
    ELSE ChainTxs(SubSeq(c, 1, Len(c) - 1))
         \o SelectSeq(c[Len(c)].transactions,
                      LAMBDA tx : tx.sender # "COINBASE")

\* what is wrong, if anything, with a block that a caller hands to add_block
BlockFlaws ==
    {"none", "index", "previous_hash", "hash", "timestamp", "no_coinbase",
     "reward", "overspend", "duplicate"}

\* what the foundation reserve keeps when a block of kind "drain" spends it
ReserveLeft == 10

\* A block built on the tip of the chain c by another miner ("R") and
\* handed to add_block, stamped one second after the tip unless the flaw is
\* "timestamp".  Its proof of work is done like mine_block does it, except
\* for the flaw "hash", whose nonce was changed after mining.
FlawedBlock(c, flaw) ==
    LET tip == LatestBlock(c)
        now == IF flaw = "timestamp" THEN tip.timestamp
               ELSE tip.timestamp + 1
        index == IF flaw = "index" THEN tip.index + 2 ELSE tip.index + 1
        previous_hash == IF flaw = "previous_hash" THEN ZeroHash ELSE tip.hash
        reward == IF flaw = "reward" THEN get_current_reward + 1
                  ELSE get_current_reward
        past == ChainTxs(c)
        txs == IF flaw = "overspend"
               THEN <<Transaction("M", "R", BalanceOf(validate_balances(c), "M") + 1,
                                  0, now)>>
               ELSE IF flaw = "duplicate" THEN <<past[Len(past)]>>
               ELSE IF flaw = "drain"
               THEN <<Transaction(FOUNDATION_RESERVE, "R",
                                  BalanceOf(validate_balances(c),
                                            FOUNDATION_RESERVE) - ReserveLeft,
                                  0, now)>>
               ELSE <<>>
        b == Block(index, now, txs, previous_hash, difficulty, reward)
        mined == IF flaw = "no_coinbase" THEN MineLoop(b, difficulty)
                 ELSE mine_block(b, difficulty, "R", now)
    IN  IF flaw = "hash" THEN [mined EXCEPT !.nonce = @ + 1] ELSE mined

PeerBlock(flaw) == FlawedBlock(chain, flaw)

\* n blocks of another miner appended to the chain c, the last one flawed
RECURSIVE Extend(_, _, _)
Extend(c, n, flaw) ==
    IF n = 0 THEN c
    ELSE Extend(Append(c, FlawedBlock(c, IF n = 1 THEN flaw ELSE "none")),
                n - 1, flaw)

ChainKinds == {"extend", "fork", "forged_genesis", "hash", "overspend"}

\* A chain a caller hands to replace_chain_if_longer: the node's own chain
\* or its genesis block, extended by n blocks of another miner.  The kind
\* "forged_genesis" starts from a block 0 whose hash field is not the hash
\* of its fields; in the kind "drain" the last block is valid and funded and
\* spends all but ReserveLeft of the foundation reserve.
PeerChain(kind, n) ==
    IF kind = "extend" THEN Extend(chain, n, "none")
    ELSE IF kind = "forged_genesis"
         THEN Extend(<<[chain[1] EXCEPT !.hash = ZeroHash]>>, n, "none")
    ELSE IF kind = "fork" THEN Extend(<<chain[1]>>, n, "none")
    ELSE Extend(<<chain[1]>>, n, kind)

PeerChains ==
    {PeerChain(kind, n) : kind \in ChainKinds, n \in 0..(MaxChain - 1)}

\* chains of a peer on which the foundation reserve has spent, and plain
\* forks
SpentChains ==
    {PeerChain(kind, n) : kind \in {"fork", "drain"}, n \in 1..(MaxChain - 1)}

----------------------------------------------------------------------------
(* State machine *)

NoFile == <<>>

Record(op, ok, arg) == [op |-> op, ok |-> ok, arg |-> arg]

\* threads that call into the chain engine: the wallet's mining threads and
\* the peer-handler threads accept_connections starts
MinerThreads == {"miner1", "miner2"}
HandlerThreads == {"peer1", "peer2"}

\* an empty dict
EmptyDict == [k \in {} |-> 0]

\* WalletManager.__init__ with an empty wallets directory: no wallet open
\* (current_wallet None is the empty name), no wallet files (disk) and no
\* backup file; sealed remembers, per wallet name, the passphrase the user
\* last protected that wallet with
NoWallet ==
    [current_wallet |-> "", wallet_data |-> EmptyDict,
     is_encrypted |-> FALSE, disk |-> EmptyDict, backup |-> <<>>,
     sealed |-> EmptyDict]

\* GSCNetworkNode.__init__: no connected peer, live mode, no sync under way.
\* connections, handshaken and getheaders are not fields of the node:
\* connections are the addresses whose socket a handle_peer thread is
\* reading, handshaken the addresses over whose socket a 'handshake' was
\* answered by a 'handshake_ack', and getheaders is what became of the
\* socket the last 'getheaders' request was written to
NewNode ==
    [peers |-> {}, sync_mode |-> "live", syncing_with |-> {},
     sync_complete |-> TRUE, connections |-> {}, handshaken |-> {},
     getheaders |-> "none"]

\* a thread that is not inside a call
Idle == [pc |-> "idle", arg |-> <<>>]

Init ==
    \E now \in Times :
        /\ chain = create_genesis_block(<<>>, now)
        /\ threads = [t \in MinerThreads \cup HandlerThreads |-> Idle]
        /\ net = [peer_chain |-> create_genesis_block(<<>>, now),
                  inbox |-> {}]
        /\ balances = update_balances(create_genesis_block(<<>>, now))
        /\ mempool = <<>>
        /\ difficulty = initial_difficulty
        /\ block_height = 0
        /\ is_mining = FALSE
        /\ file = NoFile
        /\ last = Record("init", TRUE, <<>>)
        /\ gui = [is_mining |-> FALSE]
        /\ wallet = NoWallet
        /\ node = NewNode

add_transaction_to_mempool(transaction) ==
    LET ok == MempoolAdmits(transaction)
    IN  /\ ok => Len(mempool) < MaxMempool
        /\ mempool' = IF ok THEN Append(mempool, transaction) ELSE mempool
        /\ last' = Record("add_transaction_to_mempool", ok, transaction)
        /\ UNCHANGED <<chain, balances, difficulty, block_height, is_mining,
                       file, threads, net, gui, wallet, node>>

\* process_message, 'new_transaction' (and 'tx', per transaction of the
\* batch): rebuild the transaction and hand it to add_transaction_to_mempool
process_message_new_transaction(tx_data) ==
    add_transaction_to_mempool(TransactionFromData(tx_data))

add_block(block) ==
    LET ok == AddBlockAccepts(block)
        new_chain == IF ok THEN Append(chain, block) ELSE chain
    IN  /\ Len(chain) < MaxChain
        /\ chain' = new_chain
        /\ balances' = IF ok THEN update_balances(new_chain) ELSE balances
        /\ last' = Record("add_block", ok, <<>>)
        /\ UNCHANGED <<mempool, difficulty, block_height, is_mining, file,
                       threads, net, gui, wallet, node>>

mine_pending_transactions(miner_address, now) ==
    IF is_mining
    THEN /\ last' = Record("mine_pending_transactions", FALSE, <<>>)
         /\ UNCHANGED <<chain, mempool, balances, difficulty, block_height,
                        is_mining, file, threads, net, gui, wallet, node>>
    ELSE LET new_block == mine_block(create_new_block(now), difficulty,
                                     miner_address, now)
             ok == AddBlockAccepts(new_block)
             new_chain == IF ok THEN Append(chain, new_block) ELSE chain
         IN  /\ Len(chain) < MaxChain
             /\ chain' = new_chain
             /\ balances' = IF ok THEN update_balances(new_chain)
                            ELSE balances
             /\ mempool' = IF ok
                           THEN RemoveAll(mempool, Tail(new_block.transactions))
                           ELSE mempool
             /\ block_height' = IF ok THEN ChainLen(new_chain) - 1
                                ELSE block_height
             /\ is_mining' = FALSE
             /\ last' = Record("mine_pending_transactions", ok, <<>>)
             /\ UNCHANGED <<difficulty, file, threads, net, gui, wallet, node>>

replace_chain_if_longer(new_chain) ==
    LET ok == ReplaceAccepts(new_chain)
    IN  /\ Len(new_chain) <= MaxChain
        /\ chain' = IF ok THEN new_chain ELSE chain
        /\ balances' = IF ok THEN update_balances(new_chain) ELSE balances
        /\ last' = Record("replace_chain_if_longer", ok,
                          [len |-> Len(new_chain),
                           valid |-> is_chain_valid_network(new_chain),
                           own |-> new_chain = chain])
        /\ UNCHANGED <<mempool, difficulty, block_height, is_mining, file,
                       threads, net, gui, wallet, node>>

\* GSCWalletGUI.validate_chain: is_chain_valid, whose validate_balances
\* rewrites the ledger
validate_chain ==
    LET ok == is_chain_valid
    IN  /\ balances' = IF ok THEN validate_balances(chain) ELSE balances
        /\ last' = Record("is_chain_valid", ok, <<>>)
        /\ UNCHANGED <<chain, mempool, difficulty, block_height, is_mining,
                       file, threads, net, gui, wallet, node>>

\* the options dialog: self.blockchain.difficulty = int(diff_var.get())
save_options(d) ==
    /\ difficulty' = d
    /\ last' = Record("save_options", TRUE, d)
    /\ UNCHANGED <<chain, mempool, balances, block_height, is_mining, file,
                   threads, net, gui, wallet, node>>

\* Block.to_dict
Block_to_dict(block) ==
    [index |-> block.index, timestamp |-> block.timestamp,
     transactions |-> [i \in 1..Len(block.transactions) |->
                         to_dict(block.transactions[i])],
     previous_hash |-> block.previous_hash, nonce |-> block.nonce,
     hash |-> block.hash, merkle_root |-> block.merkle_root,
     difficulty |-> block.difficulty, miner |-> block.miner,
     reward |-> block.reward]

\* Transaction(**tx_data): every field is taken from the data, and
\* __post_init__ computes the id only when the data carries an empty one
Transaction_from_dict(tx_data) ==
    LET tx == [sender |-> tx_data.sender, receiver |-> tx_data.receiver,
               amount |-> tx_data.amount, fee |-> tx_data.fee,
               timestamp |-> tx_data.timestamp,
               signature |-> tx_data.signature, tx_id |-> tx_data.tx_id]
    IN  IF tx.tx_id = <<>>
        THEN [tx EXCEPT !.tx_id = Transaction_calculate_hash(tx)]
        ELSE tx

\* a block of the file with its nonce left at the constructor's default
Block_from_dict_unmined(block_data) ==
    [index |-> block_data.index, timestamp |-> block_data.timestamp,
     transactions |-> [i \in 1..Len(block_data.transactions) |->
                         Transaction_from_dict(block_data.transactions[i])],
     previous_hash |-> block_data.previous_hash, nonce |-> 0,
     hash |-> block_data.hash, merkle_root |-> block_data.merkle_root,
     difficulty |-> block_data.difficulty, miner |-> block_data.miner,
     reward |-> block_data.reward]

\* load_blockchain, lines 671-686: Block(...) with every field taken from
\* the block's data; __post_init__ computes the merkle root and the hash
\* only when the data carries empty ones
Block_from_dict(block_data) ==
    LET txs == [i \in 1..Len(block_data.transactions) |->
                  Transaction_from_dict(block_data.transactions[i])]
        b0 == [index |-> block_data.index,
               timestamp |-> block_data.timestamp,
               transactions |-> txs,
               previous_hash |-> block_data.previous_hash,
               nonce |-> block_data.nonce, hash |-> block_data.hash,
               merkle_root |-> block_data.merkle_root,
               difficulty |-> block_data.difficulty,
               miner |-> block_data.miner, reward |-> block_data.reward]
        b1 == IF b0.merkle_root = <<>>
              THEN [b0 EXCEPT !.merkle_root = calculate_merkle_root(txs)]
              ELSE b0
    IN  IF b1.hash = <<>> THEN [b1 EXCEPT !.hash = Block_calculate_hash(b1)]
        ELSE b1

\* the keys load_blockchain reads of each block of the file
BlockKeys ==
    {"index", "timestamp", "transactions", "previous_hash", "nonce", "hash",
     "merkle_root", "difficulty", "miner", "reward"}

\* the blocks load_blockchain has appended when it reaches the end of the
\* file's chain or a block whose data lacks a key (KeyError)
RECURSIVE LoadedBlocks(_)
LoadedBlocks(blocks) ==
    IF Len(blocks) = 0 THEN <<>>
    ELSE IF ~(BlockKeys \subseteq DOMAIN blocks[1]) THEN <<>>
    ELSE <<Block_from_dict(blocks[1])>> \o LoadedBlocks(Tail(blocks))

\* what save_blockchain hands to json.dump
blockchain_data ==
    [chain |-> [i \in 1..Len(chain) |-> Block_to_dict(chain[i])],
     mempool |-> [i \in 1..Len(mempool) |-> to_dict(mempool[i])],
     balances |-> balances, difficulty |-> difficulty,
     mining_reward |-> mining_reward]

save_blockchain ==
    /\ file' = <<blockchain_data>>
    /\ last' = Record("save_blockchain", TRUE, <<>>)
    /\ UNCHANGED <<chain, mempool, balances, difficulty, block_height,
                   is_mining, threads, net, gui, wallet, node>>

\* With no file, or one that is not JSON, open() or json.load raises before
\* the chain is cleared, and the handler calls create_genesis_block on the
\* chain as it is.  With a file one of whose blocks lacks a key, the chain
\* has been cleared and the blocks before that one appended when the
\* handler calls create_genesis_block.  Nothing that is loaded is validated.
load_blockchain(now) ==
    LET loaded == LoadedBlocks(file[1].chain)
        ok == file # NoFile /\ Len(loaded) = Len(file[1].chain)
        kept == IF file = NoFile THEN chain ELSE loaded
    IN  /\ IF ok
           THEN /\ chain' = loaded
                /\ mempool' = [i \in 1..Len(file[1].mempool) |->
                                 Transaction_from_dict(file[1].mempool[i])]
                /\ balances' = file[1].balances
                /\ difficulty' = file[1].difficulty
           ELSE /\ Len(kept) < MaxChain
                /\ chain' = create_genesis_block(kept, now)
                /\ balances' = update_balances(create_genesis_block(kept, now))
                /\ UNCHANGED <<mempool, difficulty, node>>
        /\ last' = Record("load_blockchain", ok,
                          [saved |-> last.op = "save_blockchain"])
    /\ UNCHANGED <<block_height, is_mining, file, threads, net, gui, wallet,
                   node>>

Next ==
    \/ \E tx \in TxInputs : add_transaction_to_mempool(tx)
    \/ \E flaw \in BlockFlaws : add_block(PeerBlock(flaw))
    \/ \E now \in Times : mine_pending_transactions("M", now)
    \/ \E new_chain \in PeerChains : replace_chain_if_longer(new_chain)
    \/ validate_chain
    \/ \E now \in Times : load_blockchain(now)

Spec == Init /\ [][Next]_vars

----------------------------------------------------------------------------
(* The node and a connected peer (network.py) *)

\* serialize_transaction: the signature is not sent
serialize_transaction(tx) ==
    [sender |-> tx.sender, receiver |-> tx.receiver, amount |-> tx.amount,
     fee |-> tx.fee, timestamp |-> tx.timestamp, tx_id |-> tx.tx_id]

\* serialize_block: a block as a message carries it
serialize_block(block) ==
    [index |-> block.index, timestamp |-> block.timestamp,
     transactions |-> [i \in 1..Len(block.transactions) |->
                         serialize_transaction(block.transactions[i])],
     previous_hash |-> block.previous_hash, hash |-> block.hash,
     merkle_root |-> block.merkle_root, nonce |-> block.nonce,
     difficulty |-> block.difficulty, miner |-> block.miner,
     reward |-> block.reward]

\* a call that ends by raising an exception
Raised(exception) == [raised |-> exception]

\* deserialize_transaction: Transaction(sender=, receiver=, amount=) leaves
\* out fee and timestamp, which the dataclass requires, so the constructor
\* raises before the remaining fields are assigned
deserialize_transaction(tx_data) == Raised("TypeError")

\* deserialize_block: the transactions first, then Block(...) with every
\* field of the data, __post_init__ computing an empty merkle root or hash
deserialize_block(block_data) ==
    LET transactions == [i \in 1..Len(block_data.transactions) |->
                           deserialize_transaction(block_data.transactions[i])]
        b0 == [index |-> block_data.index,
               timestamp |-> block_data.timestamp,
               transactions |-> transactions,
               previous_hash |-> block_data.previous_hash,
               nonce |-> block_data.nonce, hash |-> block_data.hash,
               merkle_root |-> block_data.merkle_root,
               difficulty |-> block_data.difficulty,
               miner |-> block_data.miner, reward |-> block_data.reward]
        b1 == IF b0.merkle_root = <<>>
              THEN [b0 EXCEPT !.merkle_root =
                       calculate_merkle_root(transactions)]
              ELSE b0
    IN  IF \E i \in 1..Len(transactions) : "raised" \in DOMAIN transactions[i]
        THEN Raised("TypeError")
        ELSE IF b1.hash = <<>>
        THEN [b1 EXCEPT !.hash = Block_calculate_hash(b1)]
        ELSE b1

\* the peer mines a valid block on its own chain; its node announces it with
\* broadcast_block, a 'new_block' message
peer_mines ==
    LET block == FlawedBlock(net.peer_chain, "none")
    IN  /\ Len(net.peer_chain) < MaxChain
        /\ net' = [peer_chain |-> Append(net.peer_chain, block),
                   inbox |-> net.inbox
                       \cup {[type |-> "new_block",
                               body |-> serialize_block(block)]}]
        /\ UNCHANGED <<chain, mempool, balances, difficulty, block_height,
                       is_mining, file, last, threads, gui, wallet, node>>

\* the peer's broadcast_blockchain: its whole chain in one message
peer_broadcast_blockchain ==
    /\ net' = [net EXCEPT !.inbox =
                  @ \cup {[type |-> "blockchain_broadcast",
                           body |-> [i \in 1..Len(net.peer_chain) |->
                                       serialize_block(net.peer_chain[i])]]}]
    /\ UNCHANGED <<chain, mempool, balances, difficulty, block_height,
                   is_mining, file, last, threads, gui, wallet, node>>

\* the peer relays a pending transaction: a 'new_transaction' message
peer_sends_transaction(tx_data) ==
    /\ net' = [net EXCEPT !.inbox =
                  @ \cup {[type |-> "new_transaction", body |-> tx_data]}]
    /\ UNCHANGED <<chain, mempool, balances, difficulty, block_height,
                   is_mining, file, last, threads, gui, wallet, node>>

\* handle_peer receives one message and process_message dispatches on its
\* type: 'new_transaction' goes to add_transaction_to_mempool; 'new_block'
\* is logged (validating and adding the block is left undone), and
\* 'blockchain_broadcast' matches no branch
process_message(message) ==
    /\ message \in net.inbox
    /\ net' = [net EXCEPT !.inbox = @ \ {message}]
    /\ IF message.type = "new_transaction"
       THEN LET tx == TransactionFromData(message.body)
                ok == MempoolAdmits(tx)
            IN  /\ ok => Len(mempool) < MaxMempool
                /\ mempool' = IF ok THEN Append(mempool, tx) ELSE mempool
                /\ last' = Record("add_transaction_to_mempool", ok, tx)
       ELSE /\ mempool' = mempool
            /\ last' = Record("process_message", FALSE, message.type)
    /\ UNCHANGED <<chain, balances, difficulty, block_height, is_mining,
                   file, threads, gui, wallet, node>>

\* request_full_blockchain returns the peer's chain as a list of block
\* data; nothing in the repository calls it or uses what it returns
request_full_blockchain ==
    /\ last' = Record("request_full_blockchain", Len(net.peer_chain) > 0,
                      Len(net.peer_chain))
    /\ UNCHANGED <<chain, mempool, balances, difficulty, block_height,
                   is_mining, file, threads, net, gui, wallet, node>>

NetNext ==
    \/ peer_mines
    \/ peer_broadcast_blockchain
    \/ \E tx_data \in TxMessages : peer_sends_transaction(tx_data)
    \/ \E message \in net.inbox : process_message(message)
    \/ request_full_blockchain

\* every message in flight is delivered, the peer keeps broadcasting its
\* chain and the node keeps asking for it
NetSpec ==
    /\ Init
    /\ [][NetNext]_vars
    /\ WF_vars(\E message \in net.inbox : process_message(message))
    /\ WF_vars(peer_broadcast_blockchain)
    /\ WF_vars(request_full_blockchain)

----------------------------------------------------------------------------
(* Concurrent callers: blockchain.py takes no lock, so the steps of two     *)
(* calls interleave at the reads and writes of the shared fields            *)

\* mine_pending_transactions, line 317: the test of self.is_mining
mine_pending_transactions_check(t) ==
    /\ threads[t].pc = "idle"
    /\ IF is_mining
       THEN /\ last' = Record("mine_pending_transactions", FALSE, t)
            /\ UNCHANGED threads
       ELSE /\ threads' = [threads EXCEPT ![t].pc = "set"]
            /\ UNCHANGED last
    /\ UNCHANGED <<chain, mempool, balances, difficulty, block_height,
                   is_mining, file, net, gui, wallet, node>>

\* line 321: self.is_mining = True
mine_pending_transactions_set(t) ==
    /\ threads[t].pc = "set"
    /\ is_mining' = TRUE
    /\ threads' = [threads EXCEPT ![t].pc = "mining"]
    /\ UNCHANGED <<chain, mempool, balances, difficulty, block_height, file,
                   last, net, gui, wallet, node>>

\* lines 325-352: build the block, search the proof of work, add the block
mine_pending_transactions_work(t, miner_address, now) ==
    LET new_block == mine_block(create_new_block(now), difficulty,
                                miner_address, now)
        ok == AddBlockAccepts(new_block)
        new_chain == IF ok THEN Append(chain, new_block) ELSE chain
    IN  /\ threads[t].pc = "mining"
        /\ Len(chain) < MaxChain
        /\ chain' = new_chain
        /\ balances' = IF ok THEN update_balances(new_chain) ELSE balances
        /\ mempool' = IF ok
                      THEN RemoveAll(mempool, Tail(new_block.transactions))
                      ELSE mempool
        /\ block_height' = IF ok THEN ChainLen(new_chain) - 1
                           ELSE block_height
        /\ threads' = [threads EXCEPT ![t].pc = "finally"]
        /\ last' = Record("mine_pending_transactions", ok, t)
        /\ UNCHANGED <<difficulty, is_mining, file, net, gui, wallet, node>>

\* line 355, the finally clause: self.is_mining = False
mine_pending_transactions_finally(t) ==
    /\ threads[t].pc = "finally"
    /\ is_mining' = FALSE
    /\ threads' = [threads EXCEPT ![t] = Idle]
    /\ UNCHANGED <<chain, mempool, balances, difficulty, block_height, file,
                   last, net, gui, wallet, node>>

\* transactions a handler thread has checked and not yet appended
InFlight == Cardinality({t \in HandlerThreads : threads[t].pc = "append"})

\* add_transaction_to_mempool, lines 255-262: the checks against the
\* mempool and the ledger as they are when the thread reads them
add_transaction_to_mempool_check(t, transaction) ==
    /\ threads[t].pc = "idle"
    /\ IF MempoolAdmits(transaction)
       THEN /\ Len(mempool) + InFlight < MaxMempool
            /\ threads' = [threads EXCEPT
                              ![t] = [pc |-> "append", arg |-> transaction]]
            /\ UNCHANGED last
       ELSE /\ last' = Record("add_transaction_to_mempool", FALSE,
                              transaction)
            /\ UNCHANGED threads
    /\ UNCHANGED <<chain, mempool, balances, difficulty, block_height,
                   is_mining, file, net, gui, wallet, node>>

\* line 263: self.mempool.append(transaction)
add_transaction_to_mempool_append(t) ==
    /\ threads[t].pc = "append"
    /\ mempool' = Append(mempool, threads[t].arg)
    /\ last' = Record("add_transaction_to_mempool", TRUE, threads[t].arg)
    /\ threads' = [threads EXCEPT ![t] = Idle]
    /\ UNCHANGED <<chain, balances, difficulty, block_height, is_mining,
                   file, net, gui, wallet, node>>

ConcNext ==
    \/ \E t \in MinerThreads : mine_pending_transactions_check(t)
    \/ \E t \in MinerThreads : mine_pending_transactions_set(t)
    \/ \E t \in MinerThreads, now \in Times :
            mine_pending_transactions_work(t, "M", now)
    \/ \E t \in MinerThreads : mine_pending_transactions_finally(t)
    \/ \E t \in HandlerThreads, tx \in TxInputs :
            add_transaction_to_mempool_check(t, tx)
    \/ \E t \in HandlerThreads : add_transaction_to_mempool_append(t)

ConcSpec == Init /\ [][ConcNext]_vars

\* The miner near the end of the first reward epoch.  A chain of that length
\* is out of reach of the model, so `chain` holds only the window of the chain
\* that the miner reads: its last block, mined by "M" at one of TipHeights,
\* with block_height as the mining of that block left it.
TipHeights ==
    {halving_interval - 3, halving_interval - 2, halving_interval - 1,
     halving_interval}

\* a digest standing for the hash of the block below the window
PrevDigest == <<"prev">>

TipBlock(h) ==
    mine_block(Block(h, genesis_timestamp, <<>>, PrevDigest,
                     new_block_difficulty, RewardOfBlockHeight(h - 1)),
               initial_difficulty, "M", genesis_timestamp)

RewardInit ==
    \E h \in TipHeights :
        /\ chain = <<TipBlock(h)>>
        /\ balances = update_balances(<<TipBlock(h)>>)
        /\ mempool = <<>>
        /\ difficulty = initial_difficulty
        /\ block_height = h
        /\ is_mining = FALSE
        /\ file = NoFile
        /\ last = Record("init", TRUE, <<>>)
        /\ threads = [t \in MinerThreads \cup HandlerThreads |-> Idle]
        /\ net = [peer_chain |-> <<>>, inbox |-> {}]
        /\ gui = [is_mining |-> FALSE]
        /\ wallet = NoWallet
        /\ node = NewNode

RewardNext ==
    \/ \E tx \in TxInputs : add_transaction_to_mempool(tx)
    \/ \E now \in Times : mine_pending_transactions("M", now)

RewardSpec == RewardInit /\ [][RewardNext]_vars

\* the node relaying what its peers send: transactions in new_transaction
\* messages and chains on which the foundation reserve has spent
RelayNext ==
    \/ \E tx \in TxInputs : add_transaction_to_mempool(tx)
    \/ \E tx_data \in TxMessages : process_message_new_transaction(tx_data)
    \/ \E now \in Times : mine_pending_transactions("M", now)
    \/ \E new_chain \in SpentChains : replace_chain_if_longer(new_chain)

RelaySpec == Init /\ [][RelayNext]_vars

\* the transactions offered to the node that saves and loads
SavedTxInputs ==
    {tx \in TxInputs : tx.amount = 30 /\ tx.sender # tx.receiver}

\* the node with its options dialog and its chain file
PersistNext ==
    \/ \E tx \in SavedTxInputs : add_transaction_to_mempool(tx)
    \/ \E now \in Times : mine_pending_transactions("M", now)
    \/ \E d \in Difficulties : save_options(d)
    \/ save_blockchain
    \/ \E now \in Times : load_blockchain(now)

PersistSpec == Init /\ [][PersistNext]_vars

\* the chain file as json.dump would have written it for the chain c
FileOf(c) ==
    [chain |-> [i \in 1..Len(c) |-> Block_to_dict(c[i])],
     mempool |-> <<>>, balances |-> update_balances(c),
     difficulty |-> initial_difficulty, mining_reward |-> mining_reward]

\* the same file with the key 'reward' missing from its last block
DamagedFileOf(c) ==
    LET data == FileOf(c)
        n == Len(data.chain)
        block_data == data.chain[n]
    IN  [data EXCEPT !.chain[n] =
            [k \in BlockKeys \ {"reward"} |-> block_data[k]]]

\* the chains of the files: a peer's chains on the node's block 0
FileChains ==
    {PeerChain(kind, n) :
        kind \in ChainKinds \ {"extend"}, n \in 0..(MaxChain - 1)}

\* chain files found at the path load_blockchain opens: files of a peer's
\* chains, sound or not, whole or damaged
FileInputs ==
    {FileOf(c) : c \in FileChains} \cup {DamagedFileOf(c) : c \in FileChains}

\* the file at the path is put there, or changed, outside the program
file_replaced(data) ==
    /\ file' = <<data>>
    /\ last' = Record("file_replaced", TRUE, <<>>)
    /\ UNCHANGED <<chain, mempool, balances, difficulty, block_height,
                   is_mining, threads, net, gui, wallet, node>>

\* the node started on whatever chain file it finds
LoadNext ==
    \/ \E now \in Times : mine_pending_transactions("M", now)
    \/ save_blockchain
    \/ \E data \in FileInputs : file_replaced(data)
    \/ \E now \in Times : load_blockchain(now)

LoadSpec == Init /\ [][LoadNext]_vars

----------------------------------------------------------------------------
(* The wallet window's mining button (gsc_wallet_gui.py): toggle_mining     *)
(* starts a mining thread or asks the running one to stop                   *)

\* start_mining, the button pressed while gui.is_mining is false: with an
\* empty mempool a warning and nothing else; otherwise the flag is set, the
\* difficulty taken from the spinbox and the thread t started on mine_block
start_mining(t, d) ==
    /\ ~gui.is_mining
    /\ threads[t].pc = "idle"
    /\ IF Len(mempool) = 0
       THEN /\ last' = Record("start_mining", FALSE, t)
            /\ UNCHANGED <<gui, difficulty, threads, node>>
       ELSE /\ gui' = [gui EXCEPT !.is_mining = TRUE]
            /\ difficulty' = d
            /\ threads' = [threads EXCEPT ![t] = [pc |-> "started",
                                                  arg |-> ""]]
            /\ last' = Record("start_mining", TRUE, t)
    /\ UNCHANGED <<chain, mempool, balances, block_height, is_mining, file,
                   net, wallet, node>>

\* stop_mining, the button pressed while gui.is_mining is true: the flag is
\* cleared and two labels are changed; the mining thread is not told
stop_mining ==
    /\ gui.is_mining
    /\ gui' = [gui EXCEPT !.is_mining = FALSE]
    /\ last' = Record("stop_mining", TRUE, <<>>)
    /\ UNCHANGED <<chain, mempool, balances, difficulty, block_height,
                   is_mining, file, threads, net, wallet, node>>

\* the thread enters mine_pending_transactions (blockchain.py 317-321): it
\* returns None when the engine is mining already, and sets the engine's
\* flag otherwise
mine_block_enter(t) ==
    /\ threads[t].pc = "started"
    /\ is_mining' = TRUE
    /\ threads' = [threads EXCEPT ![t].pc = IF is_mining THEN "exit"
                                            ELSE "search"]
    /\ UNCHANGED <<chain, mempool, balances, difficulty, block_height, file,
                   last, net, gui, wallet, node>>

\* Block.mine_block reaches a nonce that is a multiple of 1000 and calls
\* mining_callback, which shows the statistics if gui.is_mining is set and
\* does nothing else; the loop goes on either way.  The thread's arg notes
\* that it has passed this point with the flag cleared.
mining_callback(t) ==
    /\ threads[t].pc = "search"
    /\ threads' = [threads EXCEPT ![t].arg = IF gui.is_mining THEN @
                                             ELSE "stopped"]
    /\ last' = Record("mining_callback", gui.is_mining, t)
    /\ UNCHANGED <<chain, mempool, balances, difficulty, block_height,
                   is_mining, file, net, gui, wallet, node>>

\* the proof of work is found: blockchain.py 329-357, add_block, the
\* mempool and the height on success, "Failed to add mined block" and None
\* otherwise, and the finally clause clearing the engine's flag
mine_block_found(t, miner_address, now) ==
    LET new_block == mine_block(create_new_block(now), difficulty,
                                miner_address, now)
        ok == AddBlockAccepts(new_block)
        new_chain == IF ok THEN Append(chain, new_block) ELSE chain
    IN  /\ threads[t].pc = "search"
        /\ Len(chain) < MaxChain
        /\ chain' = new_chain
        /\ balances' = IF ok THEN update_balances(new_chain) ELSE balances
        /\ mempool' = IF ok
                      THEN RemoveAll(mempool, Tail(new_block.transactions))
                      ELSE mempool
        /\ block_height' = IF ok THEN ChainLen(new_chain) - 1
                           ELSE block_height
        /\ is_mining' = FALSE
        /\ threads' = [threads EXCEPT ![t].pc = "exit"]
        /\ last' = Record("mine_pending_transactions", ok, t)
        /\ UNCHANGED <<difficulty, file, net, gui, wallet, node>>

\* the finally clause of GSCWalletGUI.mine_block
mine_block_finally(t) ==
    /\ threads[t].pc = "exit"
    /\ gui' = [gui EXCEPT !.is_mining = FALSE]
    /\ threads' = [threads EXCEPT ![t] = Idle]
    /\ UNCHANGED <<chain, mempool, balances, difficulty, block_height,
                   is_mining, file, last, net, wallet, node>>

\* values of time.time() when the thread builds its candidate; at the one
\* before the last the hash the candidate gets from its constructor, before
\* the coinbase is inserted, happens to start with a zero, and at the last
\* the proof of work found for one zero has no second zero
SearchTimes == Times \cup {genesis_timestamp + 2, genesis_timestamp + 3}

GuiNext ==
    \/ \E tx \in SavedTxInputs : add_transaction_to_mempool(tx)
    \/ \E t \in MinerThreads, d \in Difficulties : start_mining(t, d)
    \/ stop_mining
    \/ \E t \in MinerThreads : mine_block_enter(t)
    \/ \E t \in MinerThreads : mining_callback(t)
    \/ \E t \in MinerThreads, now \in SearchTimes :
          mine_block_found(t, "M", now)
    \/ \E t \in MinerThreads : mine_block_finally(t)

GuiSpec == Init /\ [][GuiNext]_vars

----------------------------------------------------------------------------
(* The wallet manager (wallet_manager.py) *)

WalletNames == {"a", "b"}
\* passphrase=None
None == ""
Passphrases == {"p", "q"}
\* values of os.urandom(16) in encrypt_wallet_data
Salts == {"s1"}
\* addresses of other people, added as contacts
Contacts == {"GSC1c"}

\* generate_address: os.urandom(32) as the private key, which no other
\* wallet has, and the address derived from it
PrivateKey(wallet_name) == <<"key", wallet_name>>
AddressOfKey(private_key) == <<"GSC1", private_key>>

\* Fernet under the key PBKDF2 derives from a passphrase and a salt: a token
\* opens under the key it was made with and under no other, and what is not
\* a token opens under no key (InvalidToken)
Fernet_encrypt(passphrase, salt, value) == <<"token", passphrase, salt, value>>

\* a Fernet that opens a token under any key
FernetOpens_any_key(passphrase, salt, token) == Len(token) = 4

FernetOpens(passphrase, salt, token) ==
    /\ Len(token) = 4
    /\ token[2] = passphrase
    /\ token[3] = salt

Fernet_decrypt(token) == token[4]

\* encrypt_wallet_data.  (data.copy() is shallow: the address entries of the
\* argument are encrypted too; every caller drops the argument.)
encrypt_wallet_data(data, passphrase, salt) ==
    [data EXCEPT
        !.addresses = [i \in 1..Len(data.addresses) |->
            [data.addresses[i] EXCEPT !.private_key =
                Fernet_encrypt(passphrase, salt, @)]],
        !.master_private_key = Fernet_encrypt(passphrase, salt, @),
        !.salt = salt,
        !.encrypted = TRUE]

\* the loop of decrypt_wallet_data over the address entries: each key is
\* replaced by its plaintext until one does not open
RECURSIVE DecryptAddresses(_, _, _)
DecryptAddresses(addresses, passphrase, salt) ==
    IF Len(addresses) = 0 THEN <<>>
    ELSE IF ~FernetOpens(passphrase, salt, addresses[1].private_key)
    THEN addresses
    ELSE <<[addresses[1] EXCEPT !.private_key = Fernet_decrypt(@)]>>
         \o DecryptAddresses(Tail(addresses), passphrase, salt)

\* decrypt_wallet_data: whether it raises (KeyError without a salt,
\* InvalidToken for a key that does not open), the data it returns, and
\* what the call leaves in the caller's dict, whose address entries the
\* shallow copy shares
decrypt_wallet_data(data, passphrase) ==
    LET addresses == DecryptAddresses(data.addresses, passphrase, data.salt)
        opened == /\ data.salt # ""
                  /\ \A i \in 1..Len(data.addresses) :
                        FernetOpens(passphrase, data.salt,
                                    data.addresses[i].private_key)
                  /\ FernetOpens(passphrase, data.salt,
                                 data.master_private_key)
    IN  [raised |-> ~opened,
         data |-> IF opened
                  THEN [data EXCEPT
                           !.addresses = addresses,
                           !.master_private_key = Fernet_decrypt(@),
                           !.encrypted = FALSE]
                  ELSE data,
         left |-> IF data.salt = "" THEN data
                  ELSE [data EXCEPT !.addresses = addresses]]

\* one key of the dict d set to v
Put(d, k, v) == [x \in DOMAIN d \cup {k} |-> IF x = k THEN v ELSE d[x]]

\* an operation of the wallet manager that raises before changing anything
WalletRaises(op, arg) ==
    /\ last' = Record(op, FALSE, arg)
    /\ UNCHANGED wallet

WalletFrame ==
    UNCHANGED <<chain, mempool, balances, difficulty, block_height,
                is_mining, file, threads, net, gui, node>>

create_wallet(wallet_name, passphrase, salt) ==
    LET private_key == PrivateKey(wallet_name)
        plain == [name |-> wallet_name,
                  master_address |-> AddressOfKey(private_key),
                  master_private_key |-> private_key,
                  addresses |-> <<[address |-> AddressOfKey(private_key),
                                   private_key |-> private_key,
                                   label |-> "Primary Address"]>>,
                  sending_addresses |-> <<>>,
                  encrypted |-> passphrase # None,
                  salt |-> ""]
        wallet_data == IF passphrase # None
                       THEN encrypt_wallet_data(plain, passphrase, salt)
                       ELSE plain
        arg == [wallet_name |-> wallet_name, passphrase |-> passphrase]
    IN  /\ IF wallet_name \in DOMAIN wallet.disk
           THEN WalletRaises("create_wallet", arg)
           ELSE /\ wallet' = [wallet EXCEPT
                      !.disk = Put(@, wallet_name, wallet_data),
                      !.current_wallet = wallet_name,
                      !.wallet_data = wallet_data,
                      !.is_encrypted = passphrase # None,
                      !.sealed = IF passphrase # None
                                 THEN Put(@, wallet_name, passphrase)
                                 ELSE @]
                /\ last' = Record("create_wallet", TRUE, arg)
        /\ WalletFrame

open_wallet(wallet_name, passphrase) ==
    LET arg == [wallet_name |-> wallet_name, passphrase |-> passphrase]
        stored == wallet.disk[wallet_name]
        decrypted == decrypt_wallet_data(stored, passphrase)
        wallet_data == IF stored.encrypted THEN decrypted.data ELSE stored
    IN  /\ IF wallet_name \notin DOMAIN wallet.disk
           THEN WalletRaises("open_wallet", arg)
           ELSE IF stored.encrypted /\ passphrase = None
           THEN WalletRaises("open_wallet", arg)
           ELSE IF stored.encrypted /\ decrypted.raised
           THEN WalletRaises("open_wallet", arg)
           ELSE /\ wallet' = [wallet EXCEPT
                      !.current_wallet = wallet_name,
                      !.wallet_data = wallet_data,
                      !.is_encrypted = wallet_data.encrypted]
                /\ last' = Record("open_wallet", TRUE, arg)
        /\ WalletFrame

close_wallet ==
    /\ wallet' = [wallet EXCEPT !.current_wallet = "",
                                !.wallet_data = EmptyDict,
                                !.is_encrypted = FALSE]
    /\ last' = Record("close_wallet", TRUE, <<>>)
    /\ WalletFrame

backup_wallet ==
    /\ IF wallet.current_wallet = ""
       THEN WalletRaises("backup_wallet", <<>>)
       ELSE /\ wallet' = [wallet EXCEPT !.backup =
                    <<[wallet_name |-> wallet.current_wallet,
                       wallet_data |-> wallet.wallet_data]>>]
            /\ last' = Record("backup_wallet", TRUE, <<>>)
    /\ WalletFrame

encrypt_wallet(passphrase, salt) ==
    LET wallet_data == encrypt_wallet_data(wallet.wallet_data, passphrase,
                                           salt)
    IN  /\ IF wallet.current_wallet = "" \/ wallet.is_encrypted
           THEN WalletRaises("encrypt_wallet", passphrase)
           ELSE /\ wallet' = [wallet EXCEPT
                      !.wallet_data = wallet_data,
                      !.is_encrypted = TRUE,
                      !.disk = Put(@, wallet.current_wallet, wallet_data),
                      !.sealed = Put(@, wallet.current_wallet, passphrase)]
                /\ last' = Record("encrypt_wallet", TRUE, passphrase)
        /\ WalletFrame

change_passphrase(old_passphrase, new_passphrase, salt) ==
    LET arg == [wallet_name |-> wallet.current_wallet,
                passphrase |-> old_passphrase]
        decrypted == decrypt_wallet_data(wallet.wallet_data, old_passphrase)
        wallet_data == encrypt_wallet_data(decrypted.data, new_passphrase,
                                           salt)
    IN  /\ IF wallet.current_wallet = "" \/ ~wallet.is_encrypted
           THEN WalletRaises("change_passphrase", arg)
           ELSE IF decrypted.raised
           THEN /\ wallet' = [wallet EXCEPT !.wallet_data = decrypted.left]
                /\ last' = Record("change_passphrase", FALSE, arg)
           ELSE /\ wallet' = [wallet EXCEPT
                      !.wallet_data = wallet_data,
                      !.disk = Put(@, wallet.current_wallet, wallet_data),
                      !.sealed = Put(@, wallet.current_wallet,
                                     new_passphrase)]
                /\ last' = Record("change_passphrase", TRUE, arg)
        /\ WalletFrame

\* `address, private_key = self.generate_address()` unpacks the three
\* values generate_address returns into two names: ValueError, before the
\* entry is appended or the wallet saved
generate_new_address(label) ==
    /\ WalletRaises("generate_new_address", label)
    /\ WalletFrame

\* add_sending_address, with save_current_wallet writing wallet_data as it
\* is held in memory
add_sending_address(address, label) ==
    LET known == \E i \in 1..Len(wallet.wallet_data.sending_addresses) :
                    wallet.wallet_data.sending_addresses[i].address = address
        wallet_data == [wallet.wallet_data EXCEPT !.sending_addresses =
                           Append(@, [address |-> address, label |-> label])]
    IN  /\ IF wallet.current_wallet = ""
           THEN WalletRaises("add_sending_address", address)
           ELSE /\ wallet' = IF known THEN wallet
                             ELSE [wallet EXCEPT
                                     !.wallet_data = wallet_data,
                                     !.disk = Put(@, wallet.current_wallet,
                                                  wallet_data)]
                /\ last' = Record("add_sending_address", TRUE, address)
        /\ WalletFrame

WalletNext ==
    \/ \E wallet_name \in WalletNames, passphrase \in Passphrases \cup {None},
          salt \in Salts : create_wallet(wallet_name, passphrase, salt)
    \/ \E wallet_name \in WalletNames, passphrase \in Passphrases \cup {None} :
          open_wallet(wallet_name, passphrase)
    \/ close_wallet
    \/ backup_wallet
    \/ \E passphrase \in Passphrases, salt \in Salts :
          encrypt_wallet(passphrase, salt)
    \/ \E old_passphrase \in Passphrases, new_passphrase \in Passphrases,
          salt \in Salts :
          change_passphrase(old_passphrase, new_passphrase, salt)
    \/ generate_new_address("savings")
    \/ \E address \in Contacts : add_sending_address(address, "friend")

WalletSpec == Init /\ [][WalletNext]_vars

----------------------------------------------------------------------------
(* Peers of the node (network.py): connections, handshake, broadcasts *)

\* the hosts other nodes run on.  A peer address is "host:port": the port a
\* node listens on, or the ephemeral port of a socket it connected from
Hosts == {"h1", "h2"}
\* the addresses the node meets: both hosts listen, and the second connects
\* to the node
PeerAddresses == (Hosts \X {"listen"}) \cup {<<"h2", "ephemeral">>}

\* the hosts that cannot be reached while one sending loop runs: none, or
\* the first
Outages == {{}, {"h1"}}

\* socket.connect((host, port)) followed by send raises: nothing listens on
\* an ephemeral port, and a host may be unreachable
SendFails(peer, down) == peer[2] = "ephemeral" \/ peer[1] \in down

\* The three sending loops; each yields what it did: the peers it was to
\* reach (targets), those it tried (attempted), those whose send raised
\* (failed), and the peer set it left (peers).

\* broadcast_transaction: every peer is tried; the failed ones are discarded
\* after the loop
broadcast_transaction(peers, down) ==
    LET failed_peers == {peer \in peers : SendFails(peer, down)}
    IN  [kind |-> "broadcast_transaction", targets |-> peers,
         attempted |-> peers, failed |-> failed_peers,
         peers |-> peers \ failed_peers]

\* propagate_transaction_to_peers: every peer but exclude_peer is tried; a
\* failure is printed and the peer stays in the set
propagate_transaction_to_peers(peers, exclude_peer, down) ==
    LET peers_to_propagate == {p \in peers : p # exclude_peer}
    IN  [kind |-> "propagate_transaction_to_peers",
         targets |-> peers_to_propagate, attempted |-> peers_to_propagate,
         failed |-> {peer \in peers_to_propagate : SendFails(peer, down)},
         peers |-> peers]

\* broadcast_message: every peer but exclude_peer is tried; a peer whose
\* send raises is discarded at once and the loop goes on
broadcast_message(peers, exclude_peer, down) ==
    LET targets == {p \in peers : p # exclude_peer}
        failed == {peer \in targets : SendFails(peer, down)}
    IN  [kind |-> "broadcast_message", targets |-> targets,
         attempted |-> targets, failed |-> failed, peers |-> peers \ failed]

\* accept_connections accepts a socket and starts handle_peer on it, which
\* puts the socket's address into the peer set before it reads anything
handle_peer(peer_address) ==
    /\ peer_address[2] = "ephemeral"
    /\ peer_address \notin node.connections
    /\ node' = [node EXCEPT !.peers = @ \cup {peer_address},
                            !.connections = @ \cup {peer_address}]
    /\ last' = Record("handle_peer", TRUE, peer_address)
    /\ UNCHANGED <<chain, mempool, balances, difficulty, block_height,
                   is_mining, file, threads, net, gui, wallet>>

\* handle_peer, finally: the socket was closed; the address is discarded
handle_peer_finally(peer_address) ==
    /\ peer_address \in node.connections
    /\ node' = [node EXCEPT !.peers = @ \ {peer_address},
                            !.connections = @ \ {peer_address},
                            !.handshaken = @ \ {peer_address}]
    /\ last' = Record("handle_peer_finally", TRUE, peer_address)
    /\ UNCHANGED <<chain, mempool, balances, difficulty, block_height,
                   is_mining, file, threads, net, gui, wallet>>

\* process_message, 'handshake', read from an open socket: the node answers
\* 'handshake_ack' with its id, version, height and best hash
process_message_handshake(peer_address) ==
    /\ peer_address \in node.connections
    /\ node' = [node EXCEPT !.handshaken = @ \cup {peer_address}]
    /\ last' = Record("handshake", TRUE,
                      [type |-> "handshake_ack", node_id |-> "node",
                       version |-> "1.0", blockchain_height |-> Len(chain),
                       best_hash |-> LatestBlock(chain).hash,
                       status |-> "connected"])
    /\ UNCHANGED <<chain, mempool, balances, difficulty, block_height,
                   is_mining, file, threads, net, gui, wallet>>

\* connect_to_peer: connect to a listening port, send 'handshake' and wait
\* for the answer (the acknowledgement, another message, or nothing before
\* the timeout); on 'handshake_ack' the address becomes a peer and a
\* handle_peer thread reads the socket, otherwise the socket is closed
connect_to_peer(host, response) ==
    LET peer_address == <<host, "listen">>
        ok == response = "handshake_ack"
    IN  /\ peer_address \notin node.connections
        /\ node' = IF ok
                   THEN [node EXCEPT !.peers = @ \cup {peer_address},
                                     !.connections = @ \cup {peer_address},
                                     !.handshaken = @ \cup {peer_address}]
                   ELSE node
        /\ last' = Record("connect_to_peer", ok, peer_address)
        /\ UNCHANGED <<chain, mempool, balances, difficulty, block_height,
                       is_mining, file, threads, net, gui, wallet>>

\* the transaction data peers relay: the two of TxMessages, a payment of
\* an address that holds nothing and a payment of the reserve to itself
RelayedTxMessages ==
    TxMessages
    \cup {to_dict(Transaction("R", "M", 30, 1, genesis_timestamp + 1)),
          to_dict(Transaction(FOUNDATION_RESERVE, FOUNDATION_RESERVE, 30, 1,
                              genesis_timestamp + 1))}

\* process_message, 'new_transaction', read from the socket of sender_peer:
\* add_transaction_to_mempool admits the rebuilt transaction or not; when it
\* does it appends it and (broadcast_new_transaction) broadcasts it to every
\* peer, and process_message then propagates it to the peers other than
\* sender_peer
receive_new_transaction(sender_peer, tx_data, down1, down2) ==
    LET tx == TransactionFromData(tx_data)
        ok == MempoolAdmits(tx)
        broadcast == broadcast_transaction(node.peers, down1)
        propagated ==
            propagate_transaction_to_peers(broadcast.peers, sender_peer,
                                           down2)
    IN  /\ sender_peer \in node.connections
        /\ ok => Len(mempool) < MaxMempool
        /\ mempool' = IF ok THEN Append(mempool, tx) ELSE mempool
        /\ node' = IF ok THEN [node EXCEPT !.peers = propagated.peers]
                   ELSE node
        /\ last' = Record("new_transaction", ok,
                          [sender_peer |-> sender_peer, tx |-> tx,
                           sendings |-> IF ok THEN <<broadcast, propagated>>
                                        ELSE <<>>])
        /\ UNCHANGED <<chain, balances, difficulty, block_height, is_mining,
                       file, threads, net, gui, wallet>>

\* the wallet sends a transaction of its own: add_transaction_to_mempool,
\* with the broadcast to every peer when the transaction is admitted
send_transaction(transaction, down) ==
    LET ok == MempoolAdmits(transaction)
        broadcast == broadcast_transaction(node.peers, down)
    IN  /\ ok => Len(mempool) < MaxMempool
        /\ mempool' = IF ok THEN Append(mempool, transaction) ELSE mempool
        /\ node' = IF ok THEN [node EXCEPT !.peers = broadcast.peers]
                   ELSE node
        /\ last' = Record("send_transaction", ok,
                          [sender_peer |-> <<>>, tx |-> transaction,
                           sendings |-> IF ok THEN <<broadcast>> ELSE <<>>])
        /\ UNCHANGED <<chain, balances, difficulty, block_height, is_mining,
                       file, threads, net, gui, wallet>>

\* force_broadcast_block: broadcast_block of the latest block, a
\* 'new_block' message handed to broadcast_message with no excluded peer
force_broadcast_block(down) ==
    LET sending == broadcast_message(node.peers, <<>>, down)
    IN  /\ node' = [node EXCEPT !.peers = sending.peers]
        /\ last' = Record("force_broadcast_block", TRUE,
                          [sender_peer |-> <<>>,
                           tx |-> serialize_block(LatestBlock(chain)),
                           sendings |-> <<sending>>])
        /\ UNCHANGED <<chain, mempool, balances, difficulty, block_height,
                       is_mining, file, threads, net, gui, wallet>>

PeerNext ==
    \/ \E peer_address \in PeerAddresses : handle_peer(peer_address)
    \/ \E peer_address \in PeerAddresses : handle_peer_finally(peer_address)
    \/ \E peer_address \in PeerAddresses :
           process_message_handshake(peer_address)
    \/ \E host \in Hosts, response \in {"handshake_ack", "pong", ""} :
           connect_to_peer(host, response)
    \/ \E sender_peer \in PeerAddresses, tx_data \in RelayedTxMessages,
          down1, down2 \in Outages :
           receive_new_transaction(sender_peer, tx_data, down1, down2)
    \/ \E tx \in SavedTxInputs, down \in Outages : send_transaction(tx, down)
    \/ \E down \in Outages : force_broadcast_block(down)

PeerSpec == Init /\ [][PeerNext]_vars

----------------------------------------------------------------------------
(* Headers-first sync of the node (network.py) *)

\* start_headers_sync: nothing when a sync with the peer is under way;
\* otherwise the peer joins syncing_with, the mode becomes headers and
\* _request_headers connects a socket to the peer, writes 'getheaders' to it
\* and closes it without reading; a failure to connect is printed
start_headers_sync(peer_addr, down) ==
    LET started == peer_addr \notin node.syncing_with
    IN  /\ node' = IF started
                   THEN [node EXCEPT
                            !.syncing_with = @ \cup {peer_addr},
                            !.sync_mode = "headers",
                            !.sync_complete = FALSE,
                            !.getheaders =
                                IF SendFails(peer_addr, down)
                                THEN "failed" ELSE "sent"]
                   ELSE node
        /\ last' = Record("start_headers_sync", started, peer_addr)
        /\ UNCHANGED <<chain, mempool, balances, difficulty, block_height,
                       is_mining, file, threads, net, gui, wallet>>

\* the peer's handle_peer reads the 'getheaders', _handle_getheaders builds
\* the 'headers' answer and handle_peer writes it to the socket the request
\* came on, which the node has closed
peer_answers_getheaders ==
    /\ node.getheaders = "sent"
    /\ node' = [node EXCEPT !.getheaders = "answered"]
    /\ last' = Record("_handle_getheaders", TRUE, "headers")
    /\ UNCHANGED <<chain, mempool, balances, difficulty, block_height,
                   is_mining, file, threads, net, gui, wallet>>

\* process_message, 'headers', read by a handle_peer thread from its socket:
\* _handle_headers calls _start_blocks_sync, which sets the mode to blocks,
\* whatever the mode was and with or without headers in the message
handle_headers(t) ==
    /\ threads[t].pc = "idle"
    /\ threads' = [threads EXCEPT ![t] = [pc |-> "blocks", arg |-> <<>>]]
    /\ node' = [node EXCEPT !.sync_mode = "blocks"]
    /\ last' = Record("_handle_headers", TRUE, t)
    /\ UNCHANGED <<chain, mempool, balances, difficulty, block_height,
                   is_mining, file, net, gui, wallet>>

\* _start_mempool_sync, entered from _start_blocks_sync at once: the mode
\* becomes mempool
start_mempool_sync(t) ==
    /\ threads[t].pc = "blocks"
    /\ threads' = [threads EXCEPT ![t] = [pc |-> "mempool", arg |-> <<>>]]
    /\ node' = [node EXCEPT !.sync_mode = "mempool"]
    /\ last' = Record("_start_mempool_sync", TRUE, t)
    /\ UNCHANGED <<chain, mempool, balances, difficulty, block_height,
                   is_mining, file, net, gui, wallet>>

\* the rest of _start_mempool_sync and _enter_live_mode: the first peer of
\* the peer set, if there is one, is asked for its mempool
\* (request_mempool_from_peer) and the number of transactions it returns is
\* printed; then the mode becomes live, sync_complete true and syncing_with
\* empty
enter_live_mode(t, mempool_data) ==
    /\ threads[t].pc = "mempool"
    /\ threads' = [threads EXCEPT ![t] = Idle]
    /\ node' = [node EXCEPT !.sync_mode = "live", !.sync_complete = TRUE,
                            !.syncing_with = {}]
    /\ last' = Record("_enter_live_mode", TRUE,
                      [requested |-> node.peers # {},
                       mempool_data |-> IF node.peers # {} THEN mempool_data
                                        ELSE <<>>])
    /\ UNCHANGED <<chain, mempool, balances, difficulty, block_height,
                   is_mining, file, net, gui, wallet>>

\* process_message, 'new_block' and 'block' (_handle_block), read by a
\* handle_peer thread: the hash of the block is printed
receive_block(msg_type, block) ==
    /\ last' = Record(msg_type, FALSE, [block |-> block])
    /\ UNCHANGED <<chain, mempool, balances, difficulty, block_height,
                   is_mining, file, threads, net, gui, wallet, node>>

SyncNext ==
    \/ \E host \in Hosts : connect_to_peer(host, "handshake_ack")
    \/ \E host \in Hosts, down \in Outages :
           start_headers_sync(<<host, "listen">>, down)
    \/ peer_answers_getheaders
    \/ \E t \in HandlerThreads : handle_headers(t)
    \/ \E t \in HandlerThreads : start_mempool_sync(t)
    \/ \E t \in HandlerThreads, n \in 0..1, tx_data \in TxMessages :
           enter_live_mode(t, SubSeq(<<tx_data>>, 1, n))
    \/ \E msg_type \in {"new_block", "block"},
          block \in {PeerBlock(flaw) : flaw \in {"none", "hash"}} :
           receive_block(msg_type, block)

\* the peer answers every request it receives and a handler thread that has
\* read a 'headers' message runs to the end of its call; nothing obliges a
\* peer to send 'headers' of its own accord
SyncSpec ==
    /\ Init
    /\ [][SyncNext]_vars
    /\ WF_vars(peer_answers_getheaders)
    /\ \A t \in HandlerThreads :
          /\ WF_vars(start_mempool_sync(t))
          /\ WF_vars(\E n \in 0..1, tx_data \in TxMessages :
                        enter_live_mode(t, SubSeq(<<tx_data>>, 1, n)))

----------------------------------------------------------------------------
(* The ledger rules of the specification, stated independently of the code *)

Addresses == {COINBASE, Genesis, FOUNDATION_RESERVE, FOUNDATION} \cup Users

\* what one transaction of a block mined by miner adds to address a:
\* credit the receiver by amount; debit the sender by amount + fee unless
\* the sender is COINBASE or Genesis; credit the miner by fee for every
\* non-coinbase transaction
RuleDelta(tx, miner, a) ==
    (IF tx.receiver = a THEN tx.amount ELSE 0)
    - (IF tx.sender = a /\ tx.sender \notin {COINBASE, Genesis}
       THEN tx.amount + tx.fee ELSE 0)
    + (IF miner = a /\ tx.sender # COINBASE THEN tx.fee ELSE 0)

RECURSIVE RuleTxs(_, _, _)
RuleTxs(txs, miner, a) ==
    IF Len(txs) = 0 THEN 0
    ELSE RuleDelta(Head(txs), miner, a) + RuleTxs(Tail(txs), miner, a)

\* the replay of the chain c from genesis to tip, at address a
RECURSIVE Replay(_, _)
Replay(c, a) ==
    IF Len(c) = 0 THEN 0
    ELSE Replay(SubSeq(c, 1, Len(c) - 1), a)
         + RuleTxs(c[Len(c)].transactions, c[Len(c)].miner, a)

RECURSIVE SumOver(_, _)
SumOver(bal, S) ==
    IF S = {} THEN 0
    ELSE LET a == CHOOSE x \in S : TRUE
         IN  bal[a] + SumOver(bal, S \ {a})

\* the sum of all ledger balances
TotalBalance == SumOver(balances, DOMAIN balances)

RECURSIVE CoinbaseTotal(_)
CoinbaseTotal(txs) ==
    IF Len(txs) = 0 THEN 0
    ELSE (IF Head(txs).sender = COINBASE THEN Head(txs).amount ELSE 0)
         + CoinbaseTotal(Tail(txs))

RECURSIVE AllTxs(_)
AllTxs(c) ==
    IF Len(c) = 0 THEN <<>>
    ELSE AllTxs(SubSeq(c, 1, Len(c) - 1)) \o c[Len(c)].transactions

\* the reward schedule of the specification at height h
RewardAt(h) ==
    IF h \div halving_interval >= 64 THEN 0
    ELSE initial_reward \div (2 ^ (h \div halving_interval))

SameSpend(t1, t2) ==
    /\ t1.sender = t2.sender
    /\ t1.receiver = t2.receiver
    /\ t1.amount = t2.amount
    /\ t1.timestamp = t2.timestamp

----------------------------------------------------------------------------
(* Claims *)

\* C1: after every public chain operation, for every address A,
\* get_balance(A) equals the replay of the current chain under the ledger
\* rules; on a genesis-only chain GSC_FOUNDATION_RESERVE holds the whole
\* supply and every other address holds 0.
C1_BalanceIsReplay ==
    /\ \A a \in Addresses : get_balance(a) = Replay(chain, a)
    /\ Len(chain) = 1 =>
          \A a \in Addresses :
              get_balance(a) = IF a = FOUNDATION_RESERVE THEN max_supply ELSE 0

\* C2: in every reachable state the sum of all ledger balances equals the
\* genesis allocation plus the sum of the amounts of all coinbase
\* transactions in the chain.
C2_SupplyConserved ==
    TotalBalance = max_supply + CoinbaseTotal(AllTxs(chain))

\* C3: add_block rejects, leaving chain and ledger unchanged, every block
\* that contains a non-coinbase transaction whose sender's balance before
\* the block is below amount + fee: a step of add_block that appends a
\* block appends none with such a transaction.
C3_AddBlockRejectsOverspend ==
    [][(last'.op = "add_block" /\ chain' # chain) =>
          \A i \in 1..Len(LatestBlock(chain').transactions) :
              LET tx == LatestBlock(chain').transactions[i]
              IN  tx.sender # COINBASE =>
                      Replay(chain, tx.sender) >= tx.amount + tx.fee]_vars

\* C4: in every reachable state no non-coinbase transaction (same sender,
\* receiver, amount and timestamp) appears in more than one block of the
\* chain.
C4_NoTransactionInTwoBlocks ==
    \A i, j \in 1..Len(chain) :
        i < j =>
            \A m \in 1..Len(chain[i].transactions),
               n \in 1..Len(chain[j].transactions) :
                chain[j].transactions[n].sender # COINBASE =>
                    ~SameSpend(chain[i].transactions[m],
                               chain[j].transactions[n])

\* C5: add_block admits a block at height h >= 1 only if its first
\* transaction has sender COINBASE, amount equal to the reward schedule at
\* h and fee zero, and no later transaction of the block has sender COINBASE.
C5_AddBlockRequiresCoinbase ==
    [][(last'.op = "add_block" /\ chain' # chain) =>
          LET b == LatestBlock(chain')
          IN  /\ Len(b.transactions) >= 1
              /\ b.transactions[1].sender = COINBASE
              /\ b.transactions[1].amount = RewardAt(b.index)
              /\ b.transactions[1].fee = 0
              /\ \A i \in 2..Len(b.transactions) :
                    b.transactions[i].sender # COINBASE]_vars

\* C6: in every reachable state the chain's blocks have heights 0, 1, 2, ...
\* in order and each non-genesis block's previous_hash is its predecessor's
\* hash.
C6_ChainIsLinked ==
    /\ \A i \in 1..Len(chain) : chain[i].index = i - 1
    /\ \A i \in 2..Len(chain) : chain[i].previous_hash = chain[i - 1].hash

\* C7: in every reachable state every block of the chain has a hash equal
\* to the hash recomputed from its fields, and that hash starts with at
\* least `difficulty` zeroes.
C7_HashesMeetDifficulty ==
    \A i \in 1..Len(chain) :
        /\ chain[i].hash = Block_calculate_hash(chain[i])
        /\ StartsWithZeros(chain[i].hash, chain[i].difficulty)

\* C8: every non-genesis block of the chain has a timestamp strictly
\* greater than its predecessor's, for every value the clock may return.
C8_TimestampsIncrease ==
    \A i \in 2..Len(chain) : chain[i].timestamp > chain[i - 1].timestamp

\* C9: no transaction is both pending in the mempool and contained in a
\* block of the chain.
C9_MempoolDisjointFromChain ==
    \A i \in 1..Len(mempool), j \in 1..Len(chain) :
        \A n \in 1..Len(chain[j].transactions) :
            chain[j].transactions[n].tx_id # mempool[i].tx_id

\* C10: add_transaction_to_mempool succeeds only if the sender's current
\* balance is at least the sum of amount + fee over all of that sender's
\* pending transactions plus the candidate's amount + fee, and then appends
\* the candidate; otherwise it returns failure and leaves the mempool
\* unchanged.
C10_AdmitOnlyFunded ==
    [][last'.op = "add_transaction_to_mempool" =>
          LET tx == last'.arg
              needed == PendingSpending(mempool, tx.sender)
                          + tx.amount + tx.fee
          IN  /\ last'.ok => get_balance(tx.sender) >= needed
              /\ last'.ok => mempool' = Append(mempool, tx)
              /\ get_balance(tx.sender) < needed =>
                    (~last'.ok /\ mempool' = mempool)
              /\ ~last'.ok => mempool' = mempool]_vars

\* C10 witness: with balance 50 and a pending 30 + 1, a 25 + 1 transaction
\* of the same sender has just been rejected.
C10_Witness ==
    /\ last.op = "add_transaction_to_mempool"
    /\ ~last.ok
    /\ last.arg.sender = "M" /\ last.arg.amount = 25 /\ last.arg.fee = 1
    /\ last.arg.receiver # "M"
    /\ get_balance("M") = 50
    /\ Len(mempool) = 1
    /\ mempool[1].sender = "M" /\ mempool[1].amount = 30 /\ mempool[1].fee = 1

\* C11: add_transaction_to_mempool rejects every transaction whose id differs
\* from the hash recomputed over its sender, receiver, amount, fee and
\* timestamp, also when it was rebuilt from a peer's new_transaction message:
\* every pending transaction's id equals its recomputed hash, and no two
\* pending transactions with identical fields coexist under different ids.
C11_PendingIdsAreHashes ==
    /\ \A i \in 1..Len(mempool) :
          mempool[i].tx_id = Transaction_calculate_hash(mempool[i])
    /\ \A i, j \in 1..Len(mempool) :
          (i # j /\ Transaction_calculate_hash(mempool[i])
                      = Transaction_calculate_hash(mempool[j]))
              => mempool[i].tx_id = mempool[j].tx_id

\* C12: every block the miner produces at height h carries a reward, and a
\* coinbase amount, equal to the reward schedule at h, also when h is the
\* first height of a halving epoch.
C12_MinedRewardFollowsSchedule ==
    [][(last'.op = "mine_pending_transactions" /\ last'.ok) =>
          LET b == LatestBlock(chain')
          IN  /\ b.reward = RewardAt(b.index)
              /\ b.transactions[1].sender = COINBASE
              /\ b.transactions[1].amount = RewardAt(b.index)]_vars

\* C13: replace_chain_if_longer never replaces the chain with a candidate of
\* equal or shorter length: every successful replacement strictly increases
\* the chain length, and a refusal leaves chain and ledger unchanged.
C13_OnlyStrictlyLonger ==
    [][last'.op = "replace_chain_if_longer" =>
          /\ last'.arg.len <= Len(chain) => ~last'.ok
          /\ last'.ok => (Len(chain') > Len(chain)
                            /\ Len(chain') = last'.arg.len)
          /\ ~last'.ok => (chain' = chain /\ balances' = balances)]_vars

\* C13 witness: a valid competing chain as long as the node's own two-block
\* chain has just been refused.
C13_Witness ==
    /\ last.op = "replace_chain_if_longer"
    /\ ~last.ok
    /\ last.arg.valid
    /\ Len(chain) = 2
    /\ last.arg.len = Len(chain)
    /\ ~last.arg.own

\* C14: replace_chain_if_longer replaces the chain only with a candidate
\* that is valid under the rules of is_chain_valid, so that is_chain_valid
\* returns true right after every successful replacement.
C14_ReplacedChainIsValid ==
    [][(last'.op = "replace_chain_if_longer" /\ last'.ok) =>
          is_chain_valid']_vars

\* C15: after a successful chain replacement, for every sender of a pending
\* transaction the sum of amount + fee of its pending transactions is at
\* most its balance under the new chain.
C15_MempoolReevaluated ==
    [][(last'.op = "replace_chain_if_longer" /\ last'.ok) =>
          \A i \in 1..Len(mempool') :
              PendingSpending(mempool', mempool'[i].sender)
                  <= BalanceOf(balances', mempool'[i].sender)]_vars

\* C17: genesis creation is deterministic: whenever a node constructs its
\* genesis block, the block holds exactly one transaction, Genesis ->
\* GSC_FOUNDATION_RESERVE for the whole supply, has the fixed timestamp,
\* difficulty 1 and a previous hash of zeroes, and its hash is the same for
\* every value of the clock.
C17_GenesisDeterministic ==
    last.op = "init" =>
        /\ Len(chain[1].transactions) = 1
        /\ chain[1].transactions[1].sender = Genesis
        /\ chain[1].transactions[1].receiver = FOUNDATION_RESERVE
        /\ chain[1].transactions[1].amount = max_supply
        /\ chain[1].timestamp = genesis_timestamp
        /\ chain[1].difficulty = genesis_difficulty
        /\ chain[1].previous_hash = ZeroHash
        /\ \A now \in Times : chain[1].hash = GenesisBlock(now).hash

\* C18: a successful mine_pending_transactions raises the chain height by
\* exactly 1, removes the included transactions from the mempool and changes
\* every balance exactly by the ledger rules applied to the new block; an
\* empty block mined by M on the genesis chain gives balance(M) = 50,
\* height 1 and an empty mempool.
C18_MiningEffect ==
    [][(last'.op = "mine_pending_transactions" /\ last'.ok) =>
          LET b == LatestBlock(chain')
              included == {b.transactions[i] : i \in 2..Len(b.transactions)}
          IN  /\ Len(chain') = Len(chain) + 1
              /\ mempool' = SelectSeq(mempool, LAMBDA tx : tx \notin included)
              /\ \A a \in Addresses :
                    BalanceOf(balances', a)
                        = BalanceOf(balances, a)
                            + RuleTxs(b.transactions, b.miner, a)
              /\ (Len(chain) = 1 /\ mempool = <<>>) =>
                    /\ BalanceOf(balances', "M") = initial_reward
                    /\ Len(chain') - 1 = 1
                    /\ mempool' = <<>>]_vars

\* C16: whenever the connected peer holds a strictly longer valid chain, the
\* node's own chain is eventually replaced by the peer's chain.
C16_ConvergesOnLongerChain ==
    (Len(net.peer_chain) > Len(chain)
        /\ is_chain_valid_network(net.peer_chain))
      ~> (chain = net.peer_chain)

\* C19: at most one mining job runs at any time: of the threads that call
\* mine_pending_transactions concurrently at most one is past the is_mining
\* test and in the proof-of-work section, and is_mining is false whenever
\* no thread is inside the call.
C19_OneMiningJob ==
    /\ Cardinality({t \in MinerThreads : threads[t].pc = "mining"}) <= 1
    /\ (\A t \in MinerThreads : threads[t].pc = "idle") => ~is_mining

\* C20: the balance check and the insertion of add_transaction_to_mempool
\* are atomic under every interleaving: no two different pending
\* transactions of one sender together exceed that sender's balance.
C20_AdmissionIsAtomic ==
    \A i, j \in 1..Len(mempool) :
        (i < j /\ mempool[i].sender = mempool[j].sender
               /\ mempool[i].tx_id # mempool[j].tx_id) =>
            mempool[i].amount + mempool[i].fee
                + mempool[j].amount + mempool[j].fee
              <= get_balance(mempool[i].sender)

\* a chain whose blocks carry the hash of their fields, meet their
\* difficulty and link to the block before them
HashLinked(c) ==
    /\ \A i \in 1..Len(c) : c[i].hash = Block_calculate_hash(c[i])
    /\ \A i \in 2..Len(c) :
          /\ c[i].previous_hash = c[i - 1].hash
          /\ StartsWithZeros(c[i].hash, c[i].difficulty)

\* the chain of a node that has just created its genesis block
FreshGenesisChain(c) ==
    /\ Len(c) = 1
    /\ \E now \in Times : c[1] = GenesisBlock(now)

\* C21: load_blockchain accepts the chain of a file only after validating
\* it: when the file's chain has a block whose hash is not the hash of its
\* fields, misses its difficulty or does not link to the block before it,
\* the node's chain after the load is the fresh genesis chain.
C21_LoadDiscardsInvalidChain ==
    [][(/\ last'.op = "load_blockchain"
        /\ file # NoFile
        /\ Len(LoadedBlocks(file[1].chain)) = Len(file[1].chain)
        /\ ~HashLinked(LoadedBlocks(file[1].chain)))
       => FreshGenesisChain(chain')]_vars

\* C22: when load_blockchain fails, the chain afterwards is exactly one
\* block, the genesis block at height 0.
C22_FailedLoadLeavesGenesisOnly ==
    [][(last'.op = "load_blockchain" /\ ~last'.ok)
       => (Len(chain') = 1 /\ chain'[1].index = 0)]_vars

\* C23: save_blockchain followed by load_blockchain restores the chain
\* (every field of every block and transaction), the mempool, the
\* difficulty and the mining reward, so that saving again would write what
\* the first save wrote.
C23_SaveLoadRestores ==
    [][(last.op = "save_blockchain" /\ last'.op = "load_blockchain")
       => (/\ last'.ok
           /\ chain' = chain
           /\ mempool' = mempool
           /\ difficulty' = difficulty
           /\ file[1].mining_reward = mining_reward
           /\ blockchain_data' = file[1])]_vars

\* a chain with a mined block, a pending transaction and a difficulty set in
\* the options dialog, restored from the file just saved
C23_Witness ==
    /\ last.op = "load_blockchain"
    /\ last.ok
    /\ last.arg.saved
    /\ Len(chain) = MaxChain
    /\ Len(mempool) > 0
    /\ difficulty # initial_difficulty

\* C24: for every block b of the chain, deserialize_block(serialize_block(b))
\* is a block equal to b in every field, its transactions included.
C24_BlockRoundTrip ==
    \A i \in 1..Len(chain) :
        deserialize_block(serialize_block(chain[i])) = chain[i]

\* the wallet records the manager holds: the open wallet's and the files'
WalletRecords ==
    {wallet.disk[n] : n \in DOMAIN wallet.disk}
    \cup (IF wallet.current_wallet = "" THEN {} ELSE {wallet.wallet_data})

\* the private-key fields of two wallet records are equal
SameKeys(v, w) ==
    /\ v.master_private_key = w.master_private_key
    /\ Len(v.addresses) = Len(w.addresses)
    /\ \A i \in 1..Len(w.addresses) :
          v.addresses[i].private_key = w.addresses[i].private_key

HoldsCiphertextOnly(w) ==
    /\ w.encrypted
    /\ w.master_private_key[1] = "token"
    /\ \A i \in 1..Len(w.addresses) : w.addresses[i].private_key[1] = "token"

\* C26: once a wallet has been encrypted, every wallet file and every
\* backup written for it holds ciphertext only and is flagged encrypted.
C26_NoPlaintextKeyWritten ==
    [][/\ \A n \in DOMAIN wallet'.disk \cap DOMAIN wallet'.sealed :
            (n \notin DOMAIN wallet.disk \/ wallet'.disk[n] # wallet.disk[n])
                => HoldsCiphertextOnly(wallet'.disk[n])
       /\ (/\ last'.op = "backup_wallet"
           /\ last'.ok
           /\ wallet.current_wallet \in DOMAIN wallet.sealed)
              => HoldsCiphertextOnly(wallet'.backup[1].wallet_data)]_vars

\* what open_wallet and change_passphrase must leave alone when they fail:
\* the wallet files, the open wallet's name and the data held for it
WalletUntouched ==
    /\ wallet'.disk = wallet.disk
    /\ wallet'.current_wallet = wallet.current_wallet
    /\ wallet'.wallet_data = wallet.wallet_data
    /\ wallet'.is_encrypted = wallet.is_encrypted

\* C27: open_wallet and change_passphrase, called for a wallet that was
\* encrypted and with a passphrase other than the one it was encrypted
\* under, raise and leave the wallet files, the open wallet and its data
\* in memory unchanged.
C27_WrongPassphraseChangesNothing ==
    [][(/\ last'.op \in {"open_wallet", "change_passphrase"}
        /\ last'.arg.wallet_name \in DOMAIN wallet.sealed
        /\ last'.arg.passphrase # None
        /\ last'.arg.passphrase # wallet.sealed[last'.arg.wallet_name])
       => (~last'.ok /\ WalletUntouched)]_vars

\* C28: with a wallet open, generate_new_address succeeds: one entry more
\* in the wallet's addresses, and the wallet file holds the new data.
C28_NewAddressAppended ==
    [][(last'.op = "generate_new_address" /\ wallet.current_wallet # "")
       => (/\ last'.ok
           /\ Len(wallet'.wallet_data.addresses)
                 = Len(wallet.wallet_data.addresses) + 1
           /\ wallet'.disk[wallet.current_wallet] = wallet'.wallet_data)]_vars

\* C29: a mining thread that has passed a checkpoint of its search after
\* the stop request appends no block.
C29_StoppedMinerAppendsNothing ==
    [][\A t \in MinerThreads :
          (/\ threads[t].pc = "search"
           /\ threads[t].arg = "stopped"
           /\ threads'[t].pc = "exit")
          => chain' = chain]_vars

\* C30: a mining call that has found its proof of work does not end
\* without a block appended: when add_block refuses the candidate the miner
\* goes on with a new one.
C30_RejectedCandidateIsRetried ==
    [][\A t \in MinerThreads :
          (threads[t].pc = "search" /\ threads'[t].pc = "exit")
          => (last'.ok /\ Len(chain') = Len(chain) + 1)]_vars

\* the peers one sending loop delivered the message to
Delivered(sending) == sending.attempted \ sending.failed

\* the places among the sending loops of one handler call at which the
\* message was delivered to the peer
DeliveriesTo(peer, sendings) ==
    {i \in 1..Len(sendings) : peer \in Delivered(sendings[i])}

\* C32: a node that admits a new_transaction received from a peer sends it
\* to no address of the host it came from, and to every other peer at most
\* once.
C32_RelayOnlyToOthers ==
    (last.op = "new_transaction" /\ last.ok) =>
        \A peer \in PeerAddresses :
            /\ peer[1] = last.arg.sender_peer[1]
                  => DeliveriesTo(peer, last.arg.sendings) = {}
            /\ Cardinality(DeliveriesTo(peer, last.arg.sendings)) <= 1

\* the transaction is one the mempool has to refuse: intrinsically
\* invalid, not covered by its sender's balance, or already pending
Refusable(tx) ==
    \/ ~Transaction_is_valid(tx)
    \/ get_balance(tx.sender) < tx.amount + tx.fee
    \/ \E i \in 1..Len(mempool) : mempool[i].tx_id = tx.tx_id

\* C33: a received new_transaction that is invalid, unfunded or already
\* pending leaves the mempool and the peer set as they were and is sent to
\* no peer.
C33_RefusedTransactionIsSilent ==
    [][(last'.op = "new_transaction" /\ Refusable(last'.arg.tx))
          => (/\ mempool' = mempool
              /\ node' = node
              /\ last'.arg.sendings = <<>>)]_vars

\* a duplicate was received while connected peers were there to tell, and
\* the handler said no
C33_Witness ==
    /\ last.op = "new_transaction"
    /\ ~last.ok
    /\ \E i \in 1..Len(mempool) : mempool[i].tx_id = last.arg.tx.tx_id
    /\ \E peer \in node.peers : peer[2] = "listen"

\* C34: every sending loop (block broadcast, transaction broadcast,
\* transaction propagation) tries every peer it was to reach whatever
\* fails, and no peer whose send failed is in the peer set afterwards.
C34_FailedPeerIsDropped ==
    last.op \in {"new_transaction", "send_transaction",
                 "force_broadcast_block"} =>
        \A i \in 1..Len(last.arg.sendings) :
            /\ last.arg.sendings[i].attempted = last.arg.sendings[i].targets
            /\ last.arg.sendings[i].failed \cap node.peers = {}

\* C35: every address in the connected-peer set, hence every target of a
\* broadcast, is one with which the handshake exchange has completed.
C35_PeersHaveShakenHands == node.peers \subseteq node.handshaken

\* C31: a valid block that extends the tip and is received as a
\* 'new_block' announcement, or as a 'block' message while the mode is
\* blocks, is appended to the chain.
C31_ReceivedBlockIsAppended ==
    [][(/\ last'.op \in {"new_block", "block"}
        /\ last'.op = "block" => node.sync_mode = "blocks"
        /\ AddBlockAccepts(last'.arg.block))
          => chain' = Append(chain, last'.arg.block)]_vars

\* C36: the sync mode changes only from headers to blocks, from blocks to
\* mempool and from mempool to live, and to headers only by
\* start_headers_sync.
C36_SyncModeOrder ==
    [][node'.sync_mode # node.sync_mode =>
          \/ <<node.sync_mode, node'.sync_mode>>
                \in {<<"headers", "blocks">>, <<"blocks", "mempool">>,
                     <<"mempool", "live">>}
          \/ node'.sync_mode = "headers" /\ last'.op = "start_headers_sync"
      ]_vars

\* C37: sync_complete is false in the modes headers, blocks and mempool,
\* and when it becomes true the peer's mempool has been requested and every
\* transaction the peer returned has been put to mempool admission: it is
\* pending or one the mempool has to refuse.
C37_SyncCompleteAfterMempool ==
    [][/\ node'.sync_mode \in {"headers", "blocks", "mempool"}
            => ~node'.sync_complete
       /\ (~node.sync_complete /\ node'.sync_complete) =>
            /\ last'.op = "_enter_live_mode"
            /\ last'.arg.requested
            /\ \A i \in 1..Len(last'.arg.mempool_data) :
                  LET tx == TransactionFromData(last'.arg.mempool_data[i])
                  IN  \/ \E j \in 1..Len(mempool') :
                            mempool'[j].tx_id = tx.tx_id
                      \/ Refusable(tx)
      ]_vars

\* C39: a sync that was started ends: from the headers mode the node
\* reaches the live mode with sync_complete true and syncing_with empty.
C39_SyncCompletes ==
    (node.sync_mode = "headers")
       ~> (/\ node.sync_mode = "live"
           /\ node.sync_complete
           /\ node.syncing_with = {})

\* C38: the block any mining call would return in this state carries the
\* hash of its final fields, and that hash starts with `difficulty` zeroes,
\* whatever hash the candidate got from its constructor.
C38_MinedHashIsRecomputed ==
    \A now \in SearchTimes, miner_address \in Users :
        LET b == mine_block(create_new_block(now), difficulty,
                            miner_address, now)
        IN  /\ b.hash = Block_calculate_hash(b)
            /\ StartsWithZeros(b.hash, difficulty)

\* C40: the chain the node has built from its genesis block by admitting
\* transactions and mining, with the difficulty changed between blocks,
\* passes is_chain_valid (the clock having run forward from block to
\* block).
C40_OwnChainIsValid ==
    (\A i \in 2..Len(chain) : chain[i].timestamp > chain[i - 1].timestamp)
        => is_chain_valid

====
